---- MODULE Spec2Model ----
(***************************************************************************)
(* Multi-destination ICMP ping engine (tiagocoutinho/multi-ping).          *)
(*                                                                         *)
(* Two engines are modelled side by side, selected by `variant`:           *)
(*   "sync"  : src/multiping/ping.py   (Ping.ping, receive_one_ping)       *)
(*   "async" : src/yaping/aioping.py   (AsyncPing.ping, receive_one_ping)  *)
(* Both use the socket helpers of src/yaping/socket.py and the codec of    *)
(* src/yaping/protocol.py.                                                 *)
(*                                                                         *)
(* The consumer is the one of cli.run / cli.async_run: it pulls the next   *)
(* item as soon as it has the previous one and never suspends in between.  *)
(* `trace` is the history of what the engine did that can be observed      *)
(* from outside: requests put on the wire, outcomes handed to the          *)
(* consumer, pacing sleeps.  It is kept as a window: the events before the *)
(* first sweep, then, for each sweep, the events since its requests were   *)
(* sent (the window restarts when the next sweep sends).                   *)
(***************************************************************************)
EXTENDS Integers, Sequences, FiniteSets, TLC

VARIABLES
    variant,        \* "sync" | "async"
    addresses,      \* the `addresses` argument of ping
    count,          \* the `count` argument (NoCount stands for None)
    timeout,        \* the `timeout` argument ("finite" | "None")
    has_ip_header,  \* socket_has_ip_header(sock): raw socket vs datagram socket
    pc,             \* where the ping generator stands
    addr_map,       \* resolve_addresses()[0]: ip -> list of {host, ip}
    errors,         \* resolve_addresses()[1]: insertion ordered dict, as a list of {addr, error}
    err_i,          \* number of entries of errors.items() already yielded
    seq_id,         \* sequence number of the current sweep (0 before the first one)
    pending_ips,    \* receive_one_ping: pending_ips
    result,         \* outcome of the sweep that is being fanned out
    infos,          \* entries of addr_map[result.ip] not yet yielded
    tmo_left,       \* `for ip in pending_ips` of the timeout block: ips not yet visited
    responses,      \* aioping.receive_one_ping: the asyncio.Queue
    reader,         \* loop.add_reader(sock, cb) is in force
    timer,          \* asyncio.timeout(timeout): "off" | "armed" | "due" | "expired"
    getter,         \* future of the pending responses.get(): "none" | "pending" | "done" | "cancelled"
    must_cancel,    \* Task._must_cancel: a cancellation is to be delivered at the next step
    ready,          \* event loop: FIFO of handles to run ("cb" | "timer" | "wakeup")
    ntodo,          \* event loop: handles of the current iteration still to run
    n_select,       \* select.select calls of the current sweep
    n_recv,         \* sock.recvfrom calls of the current sweep
    rx,             \* socket_read_one_ping: what recvfrom returned (NoPacket once dealt with)
    exc,            \* exception that left the generator ("" when none)
    kept,           \* the records the consumer has been handed in this window, as they read now
    trace,          \* observable history since the current sweep started: sends, outcomes, sleeps
    \* tools.intervals / tools.async_intervals, measured on a clock
    strict,         \* the `strict` argument
    interval,       \* the `interval` argument, in clock ticks
    now,            \* time.perf_counter()
    start,          \* strict: `start`, read when the pacer is first advanced
    n_yield,        \* items yielded so far (the `i` of enumerate(stream, start=1))
    t_yield,        \* time at which the last item was yielded
    t_ask,          \* time at which the consumer last asked for the next item
    on_time,        \* no consumer step has taken longer than interval so far
    \* protocol.encode_request / decode_response
    req_args,       \* arguments of encode_request
    wire,           \* octets of a packet
    decoded,        \* what decode_response returned (error "ValueError" if it raised)
    \* tools.PingStats
    stream,         \* PingStats.stream: the records the wrapped stream yields, in order
    s_i,            \* number of records already taken from the stream
    stats,          \* PingStats.stats: ip -> HostStats
    annotated,      \* the records PingStats has yielded, as they were when yielded
    \* socket.async_resolve_addresses, task by task
    lookups         \* one entry per task of the TaskGroup: its state and its rank of completion

vars == <<variant, addresses, count, timeout, has_ip_header, pc, addr_map, errors,
          err_i, seq_id, pending_ips, result, infos, tmo_left, responses, reader,
          timer, getter, must_cancel, ready, ntodo, n_select, n_recv, rx, exc, kept, trace,
          strict, interval, now, start, n_yield, t_yield, t_ask, on_time,
          req_args, wire, decoded, stream, s_i, stats, annotated, lookups>>

(***************************************************************************)
(* Bounds                                                                  *)
(***************************************************************************)
MaxAddresses == 2   \* longest `addresses` list
MaxCount     == 2   \* largest finite `count`
MaxSweeps    == 2   \* sweeps explored of an endless run
MaxDiscard   == 1   \* packets a sweep may read and discard
MaxItems     == 3   \* items a pacer is watched for
MaxDur       == 3   \* longest time the consumer keeps an item, in clock ticks
MaxInterval  == 2   \* longest `interval`, in clock ticks

(***************************************************************************)
(* Program constants                                                       *)
(***************************************************************************)
ECHO_REPLY    == 0
ECHO_V6_REPLY == 129
SeqStop       == 65536     \* cycle(start=1, stop=2**16)

NoCount  == 0 - 1          \* count=None
NoResult == [ip |-> "", host |-> "", sequence |-> 0, id |-> 0, error |-> "", sweep |-> 0]

(***************************************************************************)
(* Environment: name service and network                                   *)
(***************************************************************************)
Addresses == {"a.org", "10.0.0.1", "b.org", "bad address", "no.such.host"}
OSError   == "OSError"

\* socket.gethostbyname: an IP literal resolves to itself
gethostbyname(host_or_ip) ==
    CASE host_or_ip = "a.org"    -> "10.0.0.1"
      [] host_or_ip = "10.0.0.1" -> "10.0.0.1"
      [] host_or_ip = "b.org"    -> "10.0.0.2"
      [] host_or_ip \in {"10.0.0.0", "10.0.0.2", "10.0.0.3"} -> host_or_ip
      [] OTHER                   -> OSError

\* socket.gethostbyaddr(ip)[0]
gethostbyaddr(ip) ==
    CASE ip = "10.0.0.1" -> "one.lan"
      [] OTHER           -> OSError

NameError == "Name or service not known"


\* socket.address_info (yaping/socket.py), given that gethostbyname succeeded
address_info(host_or_ip) ==
    LET ip    == gethostbyname(host_or_ip)
        is_ip == ip = host_or_ip
        host  == IF is_ip /\ gethostbyaddr(ip) # OSError THEN gethostbyaddr(ip) ELSE host_or_ip
    IN  [host |-> host, ip |-> ip]

\* a map that keeps only the last entry of an ip (sensitivity of C28)
setdefault_replace(am, info) ==
    IF info.ip \in DOMAIN am
        THEN [am EXCEPT ![info.ip] = <<info>>]
        ELSE am @@ (info.ip :> <<info>>)

\* dict.setdefault(ip, []).append(info)
setdefault_append(am, info) ==
    IF info.ip \in DOMAIN am
        THEN [am EXCEPT ![info.ip] = Append(@, info)]
        ELSE am @@ (info.ip :> <<info>>)

\* errors[address] = error  (a dict keeps the position of a key already present)
dict_set(er, address, error) ==
    IF \E i \in 1..Len(er) : er[i].addr = address
        THEN [i \in 1..Len(er) |-> IF er[i].addr = address THEN [addr |-> address, error |-> error] ELSE er[i]]
        ELSE Append(er, [addr |-> address, error |-> error])

RECURSIVE resolve_loop(_, _, _)
resolve_loop(rest, am, er) ==
    IF rest = <<>> THEN [addr_map |-> am, errors |-> er]
    ELSE LET address == Head(rest) IN
         IF gethostbyname(address) # OSError
            THEN resolve_loop(Tail(rest), setdefault_append(am, address_info(address)), er)
            ELSE resolve_loop(Tail(rest), am, dict_set(er, address, NameError))

\* multiping/ping.py resolve_addresses: one lookup after the other, in list order
resolve_addresses(addrs) == resolve_loop(addrs, <<>>, <<>>)

\* yaping/socket.py async_resolve_addresses: one task per address; `order` is the
\* order in which the tasks complete
Orders(n) == {f \in [1..n -> 1..n] : \A i, j \in 1..n : f[i] = f[j] => i = j}
async_resolve_addresses(addrs, order) ==
    resolve_loop([i \in 1..Len(addrs) |-> addrs[order[i]]], <<>>, <<>>)

(***************************************************************************)
(* Packets the socket can hand to recvfrom.                                *)
(***************************************************************************)
EngineId  == 1      \* icmp_id given to encode_request (new_id())
LocalPort == 2      \* sock.getsockname()[1]
OtherId   == 3      \* identifier of somebody else's echo traffic
DEST_UNREACH == 3   \* ICMP type of a Destination Unreachable message
HOST_UNREACH == 1   \* its code "Destination host unreachable"
ICMP_DEFAULT_CODE == 0

\* protocol.ERRORS[3]: the reason texts of Destination Unreachable, by code
ERRORS ==
    [c \in 0..15 |->
        <<"Destination network unreachable", "Destination host unreachable",
          "Destination protocol unreachable", "Destination port unreachable",
          "Fragmentation required", "Source route failed",
          "Destination network unknown", "Destination host unknown",
          "Source host isolated", "Network administratively prohibited",
          "Host administratively prohibited", "Network unreachable for ToS",
          "Host unreachable for ToS", "Communication administratively prohibited",
          "Host Precedence Violation", "Precedence cutoff in effect">>[c + 1]]

PeerIPs    == {"10.0.0.1", "10.0.0.2", "10.0.0.9"}
NoPacket   == [type |-> 255, code |-> 0, ip |-> "", sequence |-> 0, id |-> 0]
\* sequence numbers a reply may carry: the one of the current sweep, an older
\* and a newer one
PacketSeqs == {seq_id - 1, seq_id, seq_id + 1} \cap (0..(SeqStop - 1))

EchoReplies(ids) ==
    [type : {ECHO_REPLY}, code : {ICMP_DEFAULT_CODE}, ip : PeerIPs, sequence : PacketSeqs,
     id : ids]

\* A raw socket sees every ICMP message that reaches the host; a datagram
\* ("ping") socket only echo replies addressed to its own port, the kernel
\* having rewritten the identifier to that port.
Packets ==
    IF has_ip_header
        THEN EchoReplies({EngineId, OtherId})
             \cup {[type |-> DEST_UNREACH, code |-> HOST_UNREACH, ip |-> "10.0.0.1",
                    sequence |-> 0, id |-> 0]}
        ELSE EchoReplies({LocalPort})

\* protocol.decode_response raises ValueError unless this holds
decode_ok(p) == p.type \in {ECHO_REPLY, ECHO_V6_REPLY}

\* socket.socket_read_one_ping, for a packet that decodes
socket_read_one_ping(p) ==
    [ip |-> p.ip, host |-> "", sequence |-> p.sequence,
     id |-> IF has_ip_header THEN p.id ELSE LocalPort,
     error |-> "", sweep |-> seq_id]

\* a sequence test that lets every reply through (sensitivity of C2)
is_old_never(response) == FALSE

\* response["sequence"] != icmp_seq: a reply to another sweep
is_old(response) == response.sequence # seq_id

\* {"ip": ip, "error": error} of the timeout block
timeout_result(ip) ==
    [ip |-> ip, host |-> "", sequence |-> 0, id |-> 0,
     error |-> IF variant = "sync" THEN "TimeoutError" ELSE "timeout", sweep |-> seq_id]

NoneItem == [NoResult EXCEPT !.error = "None"]   \* the None that closes the queue

(***************************************************************************)
(* Observable events                                                       *)
(***************************************************************************)
\* a sender that sends once per originating input (sensitivity of C10)
SendEvPerInput(s, ips) ==
    [ev |-> "send", ip |-> "", host |-> "", sequence |-> s, id |-> EngineId,
     error |-> "", sweep |-> s, to |-> [ip \in ips |-> Len(addr_map[ip])]]

SendEv(s, ips) == [ev |-> "send", ip |-> "", host |-> "", sequence |-> s, id |-> EngineId,
                   error |-> "", sweep |-> s, to |-> [ip \in ips |-> 1]]
\* a fan-out that leaves the record's host alone (sensitivity of C13)
OutEvOwnHost(r, host) ==
    [ev |-> "out", ip |-> r.ip, host |-> r.host, sequence |-> r.sequence,
     id |-> r.id, error |-> r.error, sweep |-> r.sweep, to |-> <<>>]

OutEv(r, host) == [ev |-> "out", ip |-> r.ip, host |-> host, sequence |-> r.sequence,
                   id |-> r.id, error |-> r.error, sweep |-> r.sweep, to |-> <<>>]
SleepEv        == [ev |-> "sleep", ip |-> "", host |-> "", sequence |-> 0, id |-> 0,
                   error |-> "", sweep |-> seq_id, to |-> <<>>]

IsTimeout(e) == e \in {"TimeoutError", "timeout"}

ips == DOMAIN addr_map      \* ips = set(addr_map)

(***************************************************************************)
(* Initial state: ping(...) has been called, nothing has been pulled yet.  *)
(***************************************************************************)
AddressLists == UNION {[1..n -> Addresses] : n \in 0..MaxAddresses}

\* the pacer and the codec before they are used
NoRequest == [request |-> 0, icmp_id |-> 0, icmp_seq |-> 0, timestamp |-> 0]
PacerIdle ==
    /\ strict = FALSE /\ interval = 1
    /\ now = 0 /\ start = 0 /\ n_yield = 0 /\ t_yield = 0 /\ t_ask = 0
    /\ on_time = TRUE
NoDecoded == [error |-> "none", type |-> 0, code |-> 0, checksum |-> 0, id |-> 0,
              sequence |-> 0, time_sent |-> 0]
CodecIdle == req_args = NoRequest /\ wire = <<>> /\ decoded = NoDecoded
StatsIdle == stream = <<>> /\ s_i = 0 /\ stats = <<>> /\ annotated = <<>>
ResolverIdle == lookups = <<>>

Init ==
    /\ variant \in {"sync", "async"}
    /\ addresses \in AddressLists
    /\ count \in {NoCount} \cup (1..MaxCount)
    /\ timeout \in {"finite", "None"}
    /\ has_ip_header \in BOOLEAN
    /\ pc = "start"
    /\ addr_map = <<>>
    /\ errors = <<>>
    /\ err_i = 0
    /\ seq_id = 0
    /\ pending_ips = {}
    /\ result = NoResult
    /\ infos = <<>>
    /\ tmo_left = {}
    /\ responses = <<>>
    /\ reader = FALSE
    /\ timer = "off"
    /\ getter = "none"
    /\ must_cancel = FALSE
    /\ ready = <<>>
    /\ ntodo = 0
    /\ n_select = 0
    /\ n_recv = 0
    /\ rx = NoPacket
    /\ exc = ""
    /\ kept = <<>>
    /\ trace = <<>>
    /\ PacerIdle /\ StatsIdle /\ ResolverIdle /\ CodecIdle

sweepVars == <<pending_ips, result, infos, tmo_left, n_select, n_recv>>
loopVars  == <<responses, reader, timer, getter, must_cancel, ready, ntodo>>
confVars  == <<variant, addresses, count, timeout, has_ip_header>>
paceVars  == <<strict, interval, now, start, n_yield, t_yield, t_ask, on_time>>
codecVars == <<req_args, wire, decoded>>
statsVars == <<stream, s_i, stats, annotated>>
unitVars  == <<paceVars, codecVars, statsVars, lookups>>

(***************************************************************************)
(* The pacer and the sequence source                                       *)
(***************************************************************************)
\* sequence = range(1, count + 1) if count else cycle()
\* a source for which count = 0 is a range of no item (sensitivity of C38)
FiniteZero == count # NoCount

Finite == count # NoCount /\ count # 0

\* tools.cycle: 1, 2, ..., 65535, 1, 2, ...
cycle(s) == IF s + 1 < SeqStop THEN s + 1 ELSE 1

HasNext == Finite => seq_id < count
NextSeq == IF Finite THEN seq_id + 1 ELSE cycle(seq_id)

\* packets read and thrown away so far in this sweep
Discards == n_recv - (Cardinality(ips) - Cardinality(pending_ips))

(***************************************************************************)
(* Pieces of control flow shared by several actions                        *)
(***************************************************************************)
\* aioping.receive_one_ping, `await responses.get()` on queue q and what
\* follows up to the next yield or suspension; rdy, n: the loop's handles
AsyncGet(q, rdy, n) ==
    IF q = <<>>
    THEN /\ pc' = "await_get"
         /\ getter' = "pending"
         /\ responses' = q
         /\ result' = NoResult /\ infos' = <<>>
         /\ ready' = rdy /\ ntodo' = n
         /\ UNCHANGED <<reader, timer>>
    ELSE IF Head(q) = NoneItem
    THEN /\ pc' = "sleep"                 \* break; finally: loop.remove_reader(sock)
         /\ getter' = "none"
         /\ responses' = Tail(q)
         /\ result' = NoResult /\ infos' = <<>>
         /\ reader' = FALSE /\ timer' = "off"
         /\ ready' = <<>> /\ ntodo' = 0
    ELSE /\ pc' = "fanout"                \* yield response
         /\ getter' = "none"
         /\ responses' = Tail(q)
         /\ result' = Head(q) /\ infos' = addr_map[Head(q).ip]
         /\ ready' = rdy /\ ntodo' = n
         /\ UNCHANGED <<reader, timer>>

\* a timeout block that reports one pending ip only (sensitivity of C3)
TimeoutNextOnce(left) ==
    IF left = {}
    THEN /\ pc' = "sleep"
         /\ result' = NoResult /\ infos' = <<>>
         /\ tmo_left' = {}
         /\ reader' = FALSE /\ timer' = "off"
         /\ ready' = <<>> /\ ntodo' = 0
    ELSE /\ \E ip \in left :
              /\ result' = timeout_result(ip)
              /\ infos' = addr_map[ip]
         /\ tmo_left' = {}
         /\ pc' = "fanout"
         /\ ready' = <<>> /\ ntodo' = 0
         /\ UNCHANGED <<reader, timer>>

\* a timeout block that reports any destination, pending or not (sensitivity
\* of C36)
TimeoutNextAnyIp(left) ==
    IF left = {}
    THEN /\ pc' = "sleep"
         /\ result' = NoResult /\ infos' = <<>>
         /\ tmo_left' = {}
         /\ reader' = FALSE /\ timer' = "off"
         /\ ready' = <<>> /\ ntodo' = 0
    ELSE /\ \E ip \in left, any \in DOMAIN addr_map :
              /\ result' = timeout_result(any)
              /\ infos' = addr_map[any]
              /\ tmo_left' = left \ {ip}
         /\ pc' = "fanout"
         /\ ready' = <<>> /\ ntodo' = 0
         /\ UNCHANGED <<reader, timer>>

\* a timeout block that returns without the `finally` clause (sensitivity
\* of C30)
TimeoutNextKeepsReader(left) ==
    IF left = {}
    THEN /\ pc' = "sleep"
         /\ result' = NoResult /\ infos' = <<>>
         /\ tmo_left' = {}
         /\ reader' = reader /\ timer' = "off"
         /\ ready' = <<>> /\ ntodo' = 0
    ELSE /\ \E ip \in left :
              /\ result' = timeout_result(ip)
              /\ infos' = addr_map[ip]
              /\ tmo_left' = left \ {ip}
         /\ pc' = "fanout"
         /\ ready' = <<>> /\ ntodo' = 0
         /\ UNCHANGED <<reader, timer>>

\* `for ip in pending_ips: yield {"ip": ip, "error": error}` with the ips of
\* `left` still to visit; a set is visited in no particular order
TimeoutNext(left) ==
    IF left = {}
    THEN /\ pc' = "sleep"                 \* return; finally: loop.remove_reader(sock)
         /\ result' = NoResult /\ infos' = <<>>
         /\ tmo_left' = {}
         /\ reader' = FALSE /\ timer' = "off"
         /\ ready' = <<>> /\ ntodo' = 0
    ELSE /\ \E ip \in left :
              /\ result' = timeout_result(ip)
              /\ infos' = addr_map[ip]
              /\ tmo_left' = left \ {ip}
         /\ pc' = "fanout"
         /\ ready' = <<>> /\ ntodo' = 0
         /\ UNCHANGED <<reader, timer>>

(***************************************************************************)
(* Ping.ping / AsyncPing.ping                                              *)
(***************************************************************************)
\* first pull: Socket(), resolve_addresses(addresses)
Resolve ==
    /\ pc = "start"
    /\ \E order \in Orders(Len(addresses)) :
         LET r == IF variant = "sync" THEN resolve_addresses(addresses)
                                      ELSE async_resolve_addresses(addresses, order)
         IN  /\ addr_map' = r.addr_map
             /\ errors' = r.errors
             /\ pc' = IF r.errors = <<>> THEN "pace" ELSE "errors"
    /\ UNCHANGED <<confVars, unitVars, kept, err_i, seq_id, sweepVars, rx, loopVars, exc, trace>>

\* for addr, error in errors.items(): yield dict(ip=addr, host=addr, error=error)
EmitError ==
    /\ pc = "errors"
    /\ LET e == errors[err_i + 1]
           d == [ev |-> "out", ip |-> e.addr, host |-> e.addr, sequence |-> 0,
                 id |-> 0, error |-> e.error, sweep |-> 0, to |-> <<>>]
       IN  /\ trace' = Append(trace, d)
           /\ kept' = Append(kept, d)         \* dict(...): a record of its own
    /\ err_i' = err_i + 1
    /\ pc' = IF err_i + 1 = Len(errors) THEN "pace" ELSE "errors"
    /\ UNCHANGED <<confVars, unitVars, addr_map, errors, seq_id, sweepVars, rx, loopVars, exc>>

\* next item of the sequence; send_one_ping(ips, seq_id); receive_one_ping up to
\* its first suspension
StartSweepBody ==
    /\ HasNext
    /\ seq_id < MaxSweeps
    /\ variant = "async" => ips # {}          \* raw_ping: if not ips: return
    /\ seq_id' = NextSeq
    /\ trace' = <<SendEv(NextSeq, ips)>>      \* the window restarts with this sweep
    /\ kept' = <<>>
    /\ pending_ips' = ips
    /\ n_select' = 0 /\ n_recv' = 0 /\ rx' = NoPacket
    /\ tmo_left' = {}
    /\ IF variant = "sync"
       THEN /\ pc' = IF ips = {} THEN "sleep" ELSE "recv"
            /\ UNCHANGED <<result, infos, loopVars>>
       ELSE /\ reader' = TRUE                 \* loop.add_reader(sock, cb)
            /\ timer' = IF timeout = "None" THEN "off" ELSE "armed"
            /\ must_cancel' = FALSE
            /\ pc' = "await_get" /\ getter' = "pending"
            /\ responses' = <<>> /\ ready' = <<>> /\ ntodo' = 0
            /\ UNCHANGED <<result, infos>>
    /\ UNCHANGED <<confVars, unitVars, addr_map, errors, err_i, exc>>

\* a driver that may send the next sweep while a result of the current one
\* is still to be yielded (sensitivity of C4)
StartSweepEarly ==
    \/ /\ pc = "pace"
       /\ StartSweepBody
    \/ /\ pc = "fanout"
       /\ HasNext
       /\ seq_id < MaxSweeps
       /\ seq_id' = NextSeq
       /\ trace' = <<SendEv(NextSeq, ips)>>
       /\ UNCHANGED <<confVars, unitVars, kept, pc, addr_map, errors, err_i, sweepVars, rx, loopVars, exc>>

StartSweep ==
    /\ pc = "pace"
    /\ StartSweepBody

\* send_one_ping raises part way through `for ip in ips`: sendto raises OSError,
\* or writes fewer octets than the payload has and the assert fails; the ips of
\* `sent` had been sent to before
SendFails ==
    /\ pc = "pace"
    /\ HasNext
    /\ seq_id < MaxSweeps
    /\ \E ip \in ips, e \in {"OSError", "AssertionError"} :
         \E sent \in SUBSET (ips \ {ip}) :
            /\ trace' = <<SendEv(NextSeq, sent)>>
            /\ exc' = e
    /\ seq_id' = NextSeq
    /\ kept' = <<>>
    /\ pc' = "raised"
    /\ responses' = <<>>                      \* the queue of the sweep before is gone
    /\ UNCHANGED <<confVars, unitVars, addr_map, errors, err_i, sweepVars, rx,
                   reader, timer, getter, must_cancel, ready, ntodo>>

\* the sequence is exhausted, or raw_ping found no ip: the generator returns
EndStream ==
    /\ pc = "pace"
    /\ \/ ~HasNext
       \/ variant = "async" /\ ips = {}
    /\ pc' = "done"
    /\ UNCHANGED <<confVars, unitVars, kept, addr_map, errors, err_i, seq_id, sweepVars, rx, loopVars, exc, trace>>

\* a pacer that replays the resolution errors after each sweep (sensitivity
\* of C8)
SleepReplaysErrors ==
    /\ pc = "sleep"
    /\ trace' = Append(trace, SleepEv)
    /\ pc' = IF errors = <<>> THEN "pace" ELSE "errors"
    /\ err_i' = 0
    /\ UNCHANGED <<confVars, unitVars, kept, addr_map, errors, seq_id, sweepVars, rx, loopVars, exc>>

\* time.sleep(interval) / await asyncio.sleep(interval) after a sweep
Sleep ==
    /\ pc = "sleep"
    /\ trace' = Append(trace, SleepEv)
    /\ pc' = "pace"
    /\ UNCHANGED <<confVars, unitVars, kept, addr_map, errors, err_i, seq_id, sweepVars, rx, loopVars, exc>>

\* what the consumer holds once r has been yielded with `host`:
\*   Ping.ping:      result["host"] = info["host"]; yield result
\*                   (the record already handed over for this ip is the same dict)
\*   AsyncPing.ping: yield dict(result, host=info["host"])
hand_over(ks, r, host) ==
    IF variant = "sync"
    THEN Append([j \in 1..Len(ks) |->
                    IF ks[j].ip = r.ip THEN [ks[j] EXCEPT !.host = host] ELSE ks[j]],
                OutEv(r, host))
    ELSE Append(ks, OutEv(r, host))

\* the fan-out: yield the current result once per entry of addr_map[ip]
Yield ==
    /\ pc = "fanout"
    /\ trace' = Append(trace, OutEv(result, Head(infos).host))
    /\ kept' = hand_over(kept, result, Head(infos).host)
    /\ IF Len(infos) > 1
       THEN /\ infos' = Tail(infos)
            /\ UNCHANGED <<pc, result, tmo_left, loopVars>>
       ELSE IF IsTimeout(result.error)
       THEN /\ TimeoutNext(tmo_left)
            /\ UNCHANGED <<responses, getter, must_cancel>>
       ELSE IF variant = "sync"
       THEN /\ pc' = IF pending_ips = {} THEN "sleep" ELSE "recv"
            /\ result' = NoResult /\ infos' = <<>>
            /\ UNCHANGED <<tmo_left, loopVars>>
       ELSE /\ AsyncGet(responses, ready, ntodo)
            /\ UNCHANGED <<tmo_left, must_cancel>>
    /\ rx' = NoPacket
    /\ UNCHANGED <<confVars, unitVars, addr_map, errors, err_i, seq_id, pending_ips, n_select, n_recv, exc>>

(***************************************************************************)
(* Blocking sweep: multiping/ping.py receive_one_ping,                     *)
(* receive_pings_for_sequence; socket.socket_receive_one_ping              *)
(***************************************************************************)
\* timer() leaves time, select reports the socket readable, recvfrom returns p
SyncReceive(p) ==
    /\ variant = "sync"
    /\ pc = "recv"
    /\ n_select' = n_select + 1
    /\ n_recv' = n_recv + 1
    /\ rx' = p
    /\ IF ~decode_ok(p)
       THEN /\ pc' = "raised" /\ exc' = "ValueError"      \* decode_response raises
            /\ UNCHANGED <<pending_ips, result, infos>>
       ELSE LET response == socket_read_one_ping(p) IN
            IF is_old(response)
            THEN /\ Discards < MaxDiscard                  \* "Received old response"; continue
                 /\ UNCHANGED <<pc, exc, pending_ips, result, infos>>
            ELSE IF response.ip \notin pending_ips
            THEN /\ pc' = "raised" /\ exc' = "KeyError"    \* pending_ips.remove raises
                 /\ UNCHANGED <<pending_ips, result, infos>>
            ELSE /\ pending_ips' = pending_ips \ {response.ip}
                 /\ result' = response
                 /\ infos' = addr_map[response.ip]
                 /\ pc' = "fanout"
                 /\ exc' = exc
    /\ UNCHANGED <<confVars, unitVars, kept, addr_map, errors, err_i, seq_id, tmo_left, loopVars, trace>>

\* a receive wait that can run out whatever the timeout (sensitivity of C15)
SyncTimeoutAlways ==
    /\ variant = "sync"
    /\ pc = "recv"
    /\ \E in_select \in BOOLEAN : n_select' = n_select + (IF in_select THEN 1 ELSE 0)
    /\ TimeoutNext(pending_ips)
    /\ rx' = NoPacket
    /\ UNCHANGED <<confVars, unitVars, kept, addr_map, errors, err_i, seq_id, pending_ips, n_recv,
                   responses, getter, must_cancel, exc, trace>>

\* TimeoutError: raised by timer() when no time is left (no select call), or by
\* socket_wait_response when select returns nothing within the remaining time
SyncTimeout ==
    /\ variant = "sync"
    /\ pc = "recv"
    /\ timeout # "None"
    /\ \E in_select \in BOOLEAN : n_select' = n_select + (IF in_select THEN 1 ELSE 0)
    /\ TimeoutNext(pending_ips)
    /\ rx' = NoPacket
    /\ UNCHANGED <<confVars, unitVars, kept, addr_map, errors, err_i, seq_id, pending_ips, n_recv,
                   responses, getter, must_cancel, exc, trace>>

(***************************************************************************)
(* Cooperative sweep: yaping/aioping.py receive_one_ping, run by the       *)
(* asyncio event loop while the task is suspended in responses.get()       *)
(***************************************************************************)
\* one iteration of the loop starts: the selector reports the socket readable
\* (rd) and/or the deadline of asyncio.timeout has come (tm); their handles
\* are queued behind those already scheduled
LoopPoll ==
    /\ variant = "async"
    /\ pc = "await_get"
    /\ ntodo = 0
    /\ \E rd, tm \in BOOLEAN :
         /\ rd => reader
         /\ tm => timer = "armed"
         /\ rd \/ tm \/ ready # <<>>
         /\ timer' = IF tm THEN "due" ELSE timer
         /\ ready' = ready \o (IF rd THEN <<"cb">> ELSE <<>>) \o (IF tm THEN <<"timer">> ELSE <<>>)
         /\ ntodo' = Len(ready')
    /\ rx' = NoPacket
    /\ UNCHANGED <<confVars, unitVars, kept, pc, addr_map, errors, err_i, seq_id, sweepVars,
                   responses, reader, getter, must_cancel, exc, trace>>

\* the readiness callback cb() of receive_one_ping; recvfrom returns p
RunCb(p) ==
    /\ variant = "async"
    /\ pc = "await_get"
    /\ ntodo > 0
    /\ Head(ready) = "cb"
    /\ ntodo' = ntodo - 1
    /\ n_recv' = n_recv + 1
    /\ rx' = p
    /\ IF \/ ~decode_ok(p)                                   \* ValueError, logged by the loop
          \/ is_old(socket_read_one_ping(p))                 \* return
          \/ socket_read_one_ping(p).ip \notin pending_ips   \* KeyError, logged by the loop
       THEN /\ Discards < MaxDiscard
            /\ ready' = Tail(ready)
            /\ UNCHANGED <<pending_ips, responses, getter>>
       ELSE LET response == socket_read_one_ping(p)
                left     == pending_ips \ {response.ip}
                q        == Append(responses, response)
            IN  /\ pending_ips' = left
                /\ responses' = IF left = {} THEN Append(q, NoneItem) ELSE q
                /\ IF getter = "pending"                     \* put_nowait wakes the getter
                   THEN getter' = "done" /\ ready' = Append(Tail(ready), "wakeup")
                   ELSE getter' = getter /\ ready' = Tail(ready)
    /\ UNCHANGED <<confVars, unitVars, kept, pc, addr_map, errors, err_i, seq_id, result, infos, tmo_left,
                   n_select, reader, timer, must_cancel, exc, trace>>

\* the deadline handle of asyncio.timeout: task.cancel()
RunTimer ==
    /\ variant = "async"
    /\ pc = "await_get"
    /\ ntodo > 0
    /\ Head(ready) = "timer"
    /\ ntodo' = ntodo - 1
    /\ timer' = "expired"
    /\ IF getter = "pending"
       THEN getter' = "cancelled" /\ ready' = Append(Tail(ready), "wakeup") /\ must_cancel' = must_cancel
       ELSE getter' = getter /\ ready' = Tail(ready) /\ must_cancel' = TRUE
    /\ rx' = NoPacket
    /\ UNCHANGED <<confVars, unitVars, kept, pc, addr_map, errors, err_i, seq_id, sweepVars,
                   responses, reader, exc, trace>>

\* the task is resumed: either the cancellation is delivered (it surfaces as
\* TimeoutError from the timeout block) or responses.get() returns an item
RunWakeup ==
    /\ variant = "async"
    /\ pc = "await_get"
    /\ ntodo > 0
    /\ Head(ready) = "wakeup"
    /\ must_cancel' = FALSE
    /\ IF getter = "cancelled" \/ must_cancel
       THEN /\ getter' = "none"
            /\ TimeoutNext(pending_ips)
            /\ UNCHANGED responses
       ELSE /\ AsyncGet(responses, Tail(ready), ntodo - 1)
            /\ UNCHANGED tmo_left
    /\ rx' = NoPacket
    /\ UNCHANGED <<confVars, unitVars, kept, addr_map, errors, err_i, seq_id, pending_ips,
                   n_select, n_recv, exc, trace>>

Next ==
    \/ Resolve
    \/ EmitError
    \/ StartSweep
    \/ SendFails
    \/ EndStream
    \/ Sleep
    \/ Yield
    \/ \E p \in Packets : SyncReceive(p)
    \/ SyncTimeout
    \/ LoopPoll
    \/ \E p \in Packets : RunCb(p)
    \/ RunTimer
    \/ RunWakeup

Spec == Init /\ [][Next]_vars

TypeOK ==
    /\ pc \in {"start", "errors", "pace", "recv", "await_get", "fanout", "sleep", "done", "raised"}
    /\ pending_ips \subseteq ips
    /\ tmo_left \subseteq ips
    /\ seq_id \in 0..MaxSweeps

(***************************************************************************)
(* Vocabulary of the properties                                            *)
(***************************************************************************)
Outs      == SelectSeq(trace, LAMBDA e : e.ev = "out")   \* outcomes of the window
IsOk(e)   == e.ev = "out" /\ e.error = ""
IsTmo(e)  == e.ev = "out" /\ IsTimeout(e.error)
OkOuts    == SelectSeq(trace, IsOk)
TmoOuts   == SelectSeq(trace, IsTmo)

\* the sweep of the window has ended (its generator has returned)
SweepOver == seq_id > 0 /\ pc \in {"sleep", "pace", "done"}

\* number of originating inputs recorded in addr_map for the ips of S
RECURSIVE FanOut(_)
FanOut(S) == IF S = {} THEN 0
             ELSE LET ip == CHOOSE x \in S : TRUE IN Len(addr_map[ip]) + FanOut(S \ {ip})

\* the display hosts recorded for ip, in list order
Hosts(ip) == [i \in 1..Len(addr_map[ip]) |-> addr_map[ip][i].host]

\* effective WireId of the engine
WireId == IF has_ip_header THEN EngineId ELSE LocalPort

\* the requests of the sweep could not all be sent
SendFailed == exc \in {"OSError", "AssertionError"}

\* this step is a recvfrom of the current sweep
Received == n_recv' = n_recv + 1

\* the outcomes of the window that carry ip, and the hosts of a run of outcomes
OutsOf(ip)  == SelectSeq(trace, LAMBDA e : e.ev = "out" /\ e.ip = ip)
HostsOf(os) == [i \in 1..Len(os) |-> os[i].host]

\* this step took the reply rx' as the answer of its peer for the sweep
Accepted ==
    /\ pending_ips' = pending_ips \ {rx'.ip}
    /\ exc' = exc
    /\ IF variant = "sync"
       THEN pc' = "fanout" /\ result' = socket_read_one_ping(rx')
       ELSE /\ Len(responses') > Len(responses)
            /\ responses'[Len(responses) + 1] = socket_read_one_ping(rx')

\* this step left the sweep as it was, still receiving
Ignored ==
    /\ pending_ips' = pending_ips
    /\ trace' = trace
    /\ result' = result /\ responses' = responses
    /\ pc' = pc /\ exc' = exc
    /\ timer' = timer

(***************************************************************************)
(* C1.  Sweep completion: when a sweep with a finite timeout is over, the  *)
(* stream has emitted as many outcomes for it as addr_map records          *)
(* originating inputs, and every destination ip is among them.             *)
(***************************************************************************)
C1_SweepCompletion ==
    (timeout = "finite" /\ SweepOver) =>
        /\ Len(Outs) = FanOut(ips)
        /\ \A ip \in ips : \E i \in 1..Len(Outs) : Outs[i].ip = ip

\* the blocking engine alone meets the count in every sweep that ends
C1_SyncOnly == variant = "sync" => C1_SweepCompletion

(***************************************************************************)
(* C2.  Stale replies: a reply whose sequence is not the one of the sweep  *)
(* in progress removes nothing from pending_ips and produces no outcome,   *)
(* and the sweep goes on receiving; a reply that carries the sequence of   *)
(* the sweep and comes from a pending ip is accepted, whatever was         *)
(* discarded before it.                                                    *)
(***************************************************************************)
C2_StaleReplies ==
    [][/\ (Received /\ decode_ok(rx') /\ rx'.sequence # seq_id) => Ignored
       /\ (Received /\ decode_ok(rx') /\ rx'.sequence = seq_id /\ rx'.ip \in pending_ips)
              => Accepted]_vars

\* a reply was accepted right after a stale one had been thrown away
C2_Witness ==
    /\ variant = "sync" /\ pc = "fanout"
    /\ n_recv = 2 /\ Discards = 1
    /\ rx.sequence = seq_id /\ result.ip = rx.ip /\ result.error = ""

(***************************************************************************)
(* C3.  Timeout outcomes.  As stated: M pending ips at the deadline give   *)
(* exactly M timeout outcomes, one per pending ip.                         *)
(***************************************************************************)
C3_ExactlyM ==
    SweepOver =>
        /\ Len(TmoOuts) = Cardinality(pending_ips)
        /\ \A ip \in pending_ips : Len(OutsOf(ip)) = 1 /\ IsTmo(OutsOf(ip)[1])

(***************************************************************************)
(* C3, amended.  The ips pending at the deadline are exactly the ips of    *)
(* the timeout outcomes; each of them gets one timeout outcome per         *)
(* originating input, with the display hosts of addr_map in list order;    *)
(* no success outcome follows a timeout outcome.                           *)
(***************************************************************************)
C3_TimeoutFanOut ==
    /\ \A i, j \in 1..Len(trace) : (i < j /\ IsTmo(trace[i])) => ~IsOk(trace[j])
    /\ SweepOver =>
          /\ {TmoOuts[i].ip : i \in 1..Len(TmoOuts)} = pending_ips
          /\ Len(TmoOuts) = FanOut(pending_ips)
          /\ \A ip \in pending_ips :
                /\ \A i \in 1..Len(OutsOf(ip)) : IsTmo(OutsOf(ip)[i])
                /\ HostsOf(OutsOf(ip)) = Hosts(ip)

\* one pending ip with two originating inputs has timed out
C3_Witness ==
    /\ SweepOver
    /\ Cardinality(pending_ips) = 1
    /\ Len(TmoOuts) = 2
    /\ TmoOuts[1].host # TmoOuts[2].host

(***************************************************************************)
(* C4.  Sweeps do not overlap: the window opened by the request of sweep   *)
(* seq_id holds no other request and only outcomes of that sweep, and the  *)
(* result in hand belongs to that sweep; before the first request only     *)
(* resolution outcomes exist.                                              *)
(***************************************************************************)
C4_NoOverlap ==
    /\ seq_id = 0 => \A i \in 1..Len(trace) : trace[i].ev = "out" /\ trace[i].sweep = 0
    /\ seq_id > 0 =>
          /\ trace # <<>> /\ trace[1].ev = "send" /\ trace[1].sequence = seq_id
          /\ \A i \in 2..Len(trace) :
                /\ trace[i].ev # "send"
                /\ trace[i].ev = "out" => trace[i].sweep = seq_id
    /\ result # NoResult => result.sweep = seq_id
    /\ \A i \in 1..Len(responses) :
          responses[i] # NoneItem => responses[i].sweep = seq_id

\* the second sweep has produced an outcome
C4_Witness == seq_id = 2 /\ Len(Outs) >= 1 /\ pc = "sleep"

(***************************************************************************)
(* C5.  Unsolicited or duplicate reply: a reply that carries the sequence  *)
(* of the sweep but whose peer ip is not pending is thrown away, and the   *)
(* sweep keeps receiving.                                                  *)
(***************************************************************************)
C5_UnsolicitedDiscarded ==
    [][(Received /\ decode_ok(rx') /\ rx'.sequence = seq_id /\ rx'.ip \notin pending_ips)
          => Ignored]_vars

(***************************************************************************)
(* C6.  A packet that is not an echo reply does not reach the consumer:    *)
(* the stream does not end, pending_ips is untouched and the sweep keeps   *)
(* receiving under the same deadline.                                      *)
(***************************************************************************)
C6_WrongTypeNotSurfaced ==
    [][(Received /\ ~decode_ok(rx')) => Ignored]_vars

(***************************************************************************)
(* C7.  A reply is accepted only if its ICMP identifier is the effective   *)
(* WireId of the engine.                                                   *)
(***************************************************************************)
C7_IdentifierChecked ==
    [][(Received /\ pending_ips' # pending_ips) => rx'.id = WireId]_vars

(***************************************************************************)
(* C8.  Resolution errors come first and once: until the first request is  *)
(* sent the stream is the emitted prefix of the errors map, each entry as  *)
(* an outcome with ip = host = the failing input and its reason; the map   *)
(* holds the failing inputs, each once; every entry has been emitted when  *)
(* the first sweep starts, and no sweep window holds a resolution outcome. *)
(***************************************************************************)
C8_ErrorsFirstOnce ==
    /\ pc # "start" =>
          /\ {errors[i].addr : i \in 1..Len(errors)}
                = {addresses[k] : k \in {n \in 1..Len(addresses) :
                                            gethostbyname(addresses[n]) = OSError}}
          /\ \A i, j \in 1..Len(errors) : errors[i].addr = errors[j].addr => i = j
    /\ seq_id = 0 =>
          /\ Len(trace) = err_i
          /\ \A i \in 1..Len(trace) :
                /\ trace[i].ev = "out"
                /\ trace[i].ip = errors[i].addr /\ trace[i].host = errors[i].addr
                /\ trace[i].error = errors[i].error /\ trace[i].error # ""
    /\ pc \notin {"start", "errors"} => err_i = Len(errors)
    /\ seq_id > 0 => \A i \in 1..Len(Outs) : Outs[i].ip \in ips

\* one input failed to resolve, and the first sweep has produced an outcome
C8_Witness == seq_id = 1 /\ Len(errors) = 1 /\ err_i = 1 /\ Len(Outs) = 1

(***************************************************************************)
(* C9.  Nothing resolved: once the resolution outcomes are out, the stream *)
(* ends without any request and without any pacing sleep.                  *)
(***************************************************************************)
C9_EmptyEndsStream ==
    (ips = {} /\ pc \notin {"start", "errors"}) =>
        /\ pc \in {"pace", "done"}
        /\ seq_id = 0
        /\ \A i \in 1..Len(trace) : trace[i].ev = "out"

(***************************************************************************)
(* C10. Blocking engine, every destination answers: each destination ip    *)
(* is sent to exactly once; when the sweep has read as many packets as it  *)
(* has destinations and none is pending, it has waited once per packet and *)
(* every outcome is a success; before each further wait the outcomes of    *)
(* all the replies read so far are out; with nothing pending the sweep     *)
(* does not wait or receive again.                                         *)
(***************************************************************************)
C10_AllReply ==
    (variant = "sync" /\ seq_id > 0 /\ ~SendFailed) =>
        /\ trace[1].ev = "send" /\ trace[1].to = [ip \in ips |-> 1]
        /\ (SweepOver /\ pending_ips = {} /\ n_recv = Cardinality(ips)) =>
              /\ n_select = Cardinality(ips)
              /\ Len(Outs) = FanOut(ips)
              /\ \A i \in 1..Len(Outs) : IsOk(Outs[i])
        /\ pc = "recv" =>
              \A ip \in ips \ pending_ips : HostsOf(OutsOf(ip)) = Hosts(ip)
        /\ pending_ips = {} => pc # "recv"
        /\ n_recv <= n_select

\* two destinations have answered and the sweep is over
C10_Witness ==
    /\ variant = "sync" /\ SweepOver
    /\ Cardinality(ips) = 2 /\ pending_ips = {}
    /\ n_recv = 2 /\ n_select = 2

(***************************************************************************)
(* The sequence source on its own: a run whose sweeps are single steps, so *)
(* that the whole range of the 16-bit sequence field is walked through.    *)
(* sequence = range(1, count + 1) if count else cycle();                   *)
(* for seq_id in sequence: send_one_ping(ips, seq_id); ...                 *)
(***************************************************************************)
SeqCounts == {NoCount, 0} \cup (1..MaxCount) \cup {SeqStop - 1, SeqStop}

InitSeq ==
    /\ variant \in {"sync", "async"}
    /\ addresses = <<"a.org">>
    /\ count \in SeqCounts
    /\ timeout = "finite"
    /\ has_ip_header = TRUE
    /\ pc = "start"
    /\ addr_map = <<>> /\ errors = <<>> /\ err_i = 0
    /\ seq_id = 0
    /\ pending_ips = {} /\ result = NoResult /\ infos = <<>> /\ tmo_left = {}
    /\ responses = <<>> /\ reader = FALSE /\ timer = "off" /\ getter = "none"
    /\ must_cancel = FALSE /\ ready = <<>> /\ ntodo = 0
    /\ n_select = 0 /\ n_recv = 0 /\ rx = NoPacket
    /\ exc = ""
    /\ kept = <<>>
    /\ trace = <<>>
    /\ PacerIdle /\ StatsIdle /\ ResolverIdle /\ CodecIdle

\* HEADER.pack(request, ICMP_DEFAULT_CODE, csum, icmp_id, icmp_seq): the "H"
\* format takes 0..65535 and raises struct.error otherwise
pack_ok(icmp_seq) == icmp_seq \in 0..(SeqStop - 1)

\* one item of the sequence: its sweep is sent, received and paced
SeqStep ==
    /\ pc = "pace"
    /\ HasNext
    /\ pack_ok(NextSeq)
    /\ seq_id' = NextSeq
    /\ trace' = <<SendEv(NextSeq, ips)>>
    /\ UNCHANGED <<confVars, unitVars, kept, pc, addr_map, errors, err_i, sweepVars, rx, loopVars, exc>>

\* one item of the sequence that encode_request cannot pack
SeqRaise ==
    /\ pc = "pace"
    /\ HasNext
    /\ ~pack_ok(NextSeq)
    /\ seq_id' = NextSeq
    /\ pc' = "raised" /\ exc' = "struct.error"
    /\ UNCHANGED <<confVars, unitVars, kept, addr_map, errors, err_i, sweepVars, rx, loopVars, trace>>

NextSeqSpec == Resolve \/ SeqStep \/ SeqRaise \/ EndStream

SeqSpec == InitSeq /\ [][NextSeqSpec]_vars

(***************************************************************************)
(* C11. Sequence numbers: the first sweep gets 1, each sweep gets the      *)
(* number of the one before plus 1, 65535 is followed by 1, and every      *)
(* number given to a sweep and put on the wire lies in 1..65535.           *)
(***************************************************************************)
C11_SequenceWraps ==
    [][seq_id' # seq_id =>
          /\ seq_id' = (IF seq_id = SeqStop - 1 THEN 1 ELSE seq_id + 1)
          /\ seq_id' \in 1..(SeqStop - 1)
          /\ trace'[1].ev = "send" /\ trace'[1].sequence = seq_id']_vars

\* the endless sequence alone does wrap
C11_CycleOnly ==
    [][(count = NoCount /\ seq_id' # seq_id) =>
          /\ seq_id' = (IF seq_id = SeqStop - 1 THEN 1 ELSE seq_id + 1)
          /\ seq_id' \in 1..(SeqStop - 1)]_vars

(***************************************************************************)
(* C12. A finite count K with a destination and a finite timeout: the      *)
(* sweeps carry 1..K, the stream ends after sweep K and not before, and no *)
(* packet that arrives ends it.                                            *)
(***************************************************************************)
C12_ExactlyKSweeps ==
    (Finite /\ ips # {} /\ timeout = "finite") =>
        /\ seq_id <= count
        /\ pc = "done" => seq_id = count
        /\ exc \notin {"KeyError", "ValueError"}

\* without the packets that raise, the K sweeps are run
C12_AsyncOnly == variant = "async" => C12_ExactlyKSweeps

(***************************************************************************)
(* C13. Fan-out: the outcome a sweep produces for an ip is emitted once    *)
(* per entry of addr_map[ip], in list order, with the entry's display host *)
(* and otherwise the fields of the sweep outcome; the ip itself is sent to *)
(* once, however many inputs resolved to it.                               *)
(***************************************************************************)
C13_FanOut ==
    seq_id > 0 =>
        /\ \A ip \in DOMAIN trace[1].to : trace[1].to[ip] = 1
        /\ pc = "fanout" =>
              LET all == addr_map[result.ip]
                  k   == Len(all) - Len(infos)
              IN  /\ infos # <<>> /\ infos = SubSeq(all, k + 1, Len(all))
                  /\ OutsOf(result.ip) = [j \in 1..k |-> OutEv(result, all[j].host)]
        /\ \A ip \in ips \ (IF pc = "fanout" THEN {result.ip} ELSE {}) :
              \/ OutsOf(ip) = <<>>
              \/ /\ HostsOf(OutsOf(ip)) = Hosts(ip)
                 /\ \A j \in 1..Len(OutsOf(ip)) :
                       [OutsOf(ip)[j] EXCEPT !.host = ""] = [OutsOf(ip)[1] EXCEPT !.host = ""]

\* two inputs of one ip: one send, two success outcomes with their own hosts
C13_Witness ==
    /\ seq_id > 0 /\ pc = "sleep"
    /\ Cardinality(ips) = 1
    /\ Len(OkOuts) = 2
    /\ OkOuts[1].host # OkOuts[2].host

(***************************************************************************)
(* C14. A record handed to the consumer is the consumer's: whatever the    *)
(* engine does afterwards, the records the consumer holds for the window   *)
(* read as they did when they were handed over.                            *)
(***************************************************************************)
C14_RecordsNotMutated == kept = Outs

\* the cooperative engine hands over copies
C14_AsyncOnly == variant = "async" => C14_RecordsNotMutated

(***************************************************************************)
(* C15. timeout = None: no timeout outcome is ever produced, no deadline   *)
(* is armed, every receive wait of the blocking engine ends with a packet, *)
(* and a sweep is over only when no ip is pending.                         *)
(***************************************************************************)
C15_NoneNeverTimesOut ==
    timeout = "None" =>
        /\ \A j \in 1..Len(trace) : ~IsTmo(trace[j])
        /\ ~IsTimeout(result.error) /\ tmo_left = {}
        /\ timer = "off"
        /\ variant = "sync" => n_select = n_recv
        /\ SweepOver => pending_ips = {}

\* without a timeout, two destinations answered around a stale reply
C15_Witness ==
    /\ timeout = "None" /\ SweepOver
    /\ Cardinality(ips) = 2 /\ pending_ips = {}
    /\ Discards = 1

(***************************************************************************)
(* The pacer on a clock: tools.intervals / tools.async_intervals over the  *)
(* sequence source.  Time passes while the consumer holds an item (a sweep *)
(* in raw_ping) and while the pacer sleeps, and at no other moment; a      *)
(* sleep lasts what it was asked to last.                                  *)
(***************************************************************************)
engineVars == <<variant, addresses, timeout, has_ip_header, addr_map, errors, err_i,
                sweepVars, loopVars, rx, exc, kept, trace>>

InitPacer ==
    /\ variant \in {"sync", "async"}
    /\ addresses = <<>>
    /\ count \in {NoCount} \cup (1..MaxCount)
    /\ timeout = "finite"
    /\ has_ip_header = TRUE
    /\ pc = "start"
    /\ addr_map = <<>> /\ errors = <<>> /\ err_i = 0
    /\ seq_id = 0
    /\ pending_ips = {} /\ result = NoResult /\ infos = <<>> /\ tmo_left = {}
    /\ responses = <<>> /\ reader = FALSE /\ timer = "off" /\ getter = "none"
    /\ must_cancel = FALSE /\ ready = <<>> /\ ntodo = 0
    /\ n_select = 0 /\ n_recv = 0 /\ rx = NoPacket
    /\ exc = ""
    /\ kept = <<>>
    /\ trace = <<>>
    /\ strict \in BOOLEAN
    /\ interval \in 1..MaxInterval
    /\ now \in 0..1
    /\ start = 0 /\ n_yield = 0 /\ t_yield = 0 /\ t_ask = now
    /\ on_time = TRUE
    /\ CodecIdle /\ StatsIdle /\ ResolverIdle

\* a pacer that always sleeps the whole interval (sensitivity of C16)
pacer_dt_gap == interval

\* a pacer that always makes up for the time the consumer took (sensitivity
\* of C17)
pacer_dt_phase ==
    IF interval - (now - t_yield) > 0 THEN interval - (now - t_yield) ELSE 0

\* how long the pacer sleeps after an item:
\*   strict:  if (dt := i * interval + start - time.perf_counter()) > 0: sleep(dt)
\*   relaxed: sleep(interval)
pacer_dt ==
    IF strict
    THEN IF n_yield * interval + start - now > 0
         THEN n_yield * interval + start - now
         ELSE 0
    ELSE interval

\* the pacer is advanced and yields the next item of the stream
PacerYield ==
    /\ pc \in {"start", "pace"}
    /\ HasNext
    /\ n_yield < MaxItems
    /\ start' = IF strict /\ pc = "start" THEN now ELSE start
    /\ seq_id' = NextSeq
    /\ n_yield' = n_yield + 1
    /\ t_yield' = now
    /\ pc' = "body"
    /\ UNCHANGED <<engineVars, count, strict, interval, now, t_ask, on_time, codecVars, statsVars, lookups>>

\* the consumer keeps the item for d ticks, then asks for the next one
ConsumerStep ==
    /\ pc = "body"
    /\ \E d \in 0..MaxDur :
         /\ now' = now + d
         /\ t_ask' = now + d
         /\ on_time' = (on_time /\ d <= interval)
    /\ pc' = "sleep"
    /\ UNCHANGED <<engineVars, count, seq_id, strict, interval, start, n_yield, t_yield,
                   codecVars, statsVars, lookups>>

\* the statement after the yield: the pacing sleep
PacerSleep ==
    /\ pc = "sleep"
    /\ now' = now + pacer_dt
    /\ pc' = "pace"
    /\ UNCHANGED <<engineVars, count, seq_id, strict, interval, start, n_yield, t_yield,
                   t_ask, on_time, codecVars, statsVars, lookups>>

\* a pacer that may report the end without the sleep that follows the last
\* item (sensitivity of C39)
PacerEndSkipsSleep ==
    /\ pc \in {"start", "pace", "sleep"}
    /\ ~HasNext
    /\ pc' = "done"
    /\ UNCHANGED <<engineVars, count, seq_id, paceVars, codecVars, statsVars, lookups>>

\* the stream is exhausted
PacerEnd ==
    /\ pc \in {"start", "pace"}
    /\ ~HasNext
    /\ pc' = "done"
    /\ UNCHANGED <<engineVars, count, seq_id, paceVars, codecVars, statsVars, lookups>>

NextPacer == PacerYield \/ ConsumerStep \/ PacerSleep \/ PacerEnd

PacerSpec == InitPacer /\ [][NextPacer]_vars

Later(t1, t2) == IF t1 >= t2 THEN t1 ELSE t2

(***************************************************************************)
(* C16. Strict pacing: after item i the pacer sleeps until start + i *     *)
(* interval, and not at all when that time has passed; item i + 1 is       *)
(* yielded at the later of start + i * interval and the time the consumer  *)
(* asked for it; as long as no consumer step took more than interval, item *)
(* k is yielded exactly at start + (k - 1) * interval.                     *)
(***************************************************************************)
C16_StrictPacing ==
    [][strict =>
          /\ pc = "sleep" => now' = Later(now, start + n_yield * interval)
          /\ (pc = "pace" /\ pc' = "body") =>
                /\ t_yield' = Later(start + n_yield * interval, t_ask)
                /\ on_time => t_yield' = start + n_yield * interval
          /\ (pc = "start" /\ pc' = "body") => t_yield' = start' /\ start' = now]_vars

\* the third item of a strict run whose consumer kept up, two intervals after
\* the first
C16_Witness ==
    /\ strict /\ pc = "body" /\ on_time
    /\ n_yield = 3
    /\ t_yield = start + 2 * interval
    /\ t_ask < t_yield

(***************************************************************************)
(* C17. Relaxed pacing: the pacer sleeps exactly interval from the moment  *)
(* the consumer asks for the next item, however long the consumer kept the *)
(* last one; two successive items are yielded (time the consumer kept the  *)
(* first) + interval apart, never less than interval.                      *)
(***************************************************************************)
C17_RelaxedPacing ==
    [][~strict =>
          /\ pc = "sleep" => (now = t_ask /\ now' = t_ask + interval)
          /\ (pc = "pace" /\ pc' = "body") =>
                /\ t_yield' - t_yield = (t_ask - t_yield) + interval
                /\ t_yield' - t_yield >= interval]_vars

\* a relaxed run has slept a whole interval after a consumer step that took
\* longer than the interval
C17_Witness ==
    /\ ~strict /\ pc = "pace"
    /\ n_yield = 2
    /\ t_ask - t_yield > interval
    /\ now = t_ask + interval

(***************************************************************************)
(* C18. A request that cannot be sent does not end the stream: no failure  *)
(* of sendto, and no short write, leaves the generator as an exception.    *)
(***************************************************************************)
C18_SendFailureSurfaced == ~SendFailed

(***************************************************************************)
(* C19. A Destination Unreachable message read during a sweep is reported: *)
(* it raises nothing, and the sweep has an outcome in hand (or queued)     *)
(* whose error is the reason text of the message's code.                   *)
(***************************************************************************)
C19_UnreachableReported ==
    [][(Received /\ rx'.type = DEST_UNREACH) =>
          /\ exc' = "" /\ pc' # "raised"
          /\ IF variant = "sync"
             THEN result'.error = ERRORS[rx'.code]
             ELSE \E j \in 1..Len(responses') : responses'[j].error = ERRORS[rx'.code]]_vars

(***************************************************************************)
(* The codec, octet by octet: src/yaping/protocol.py                       *)
(***************************************************************************)
ECHO_REQUEST      == 8
ECHO_V6_REQUEST   == 128
ICMP_DEFAULT_SIZE == 64
HEADER_size       == 8      \* struct "!BBHHH"
TIME_size         == 8      \* struct "d"
IP_HEADER_size    == 20     \* struct "!BBHHHBBHII"
Q                 == 81     \* ord("Q")

\* a 16-bit value in network byte order
be16(x) == <<x \div 256, x % 256>>

\* bytes(Header(type, code, checksum, id, sequence)): a ctypes big-endian
\* structure, whose fields keep the low bits of what they are given
bytes_Header(type, code, csum, id, sequence) ==
    <<type % 256, code % 256>> \o be16(csum % 65536) \o be16(id % 65536)
        \o be16(sequence % 65536)

\* a packer that writes 16-bit fields low octet first (sensitivity of C20)
HEADER_pack_le(type, code, csum, id, sequence) ==
    <<type, code, csum % 256, csum \div 256, id % 256, id \div 256,
      sequence % 256, sequence \div 256>>

\* HEADER.pack(type, code, checksum, id, sequence), for arguments in range
HEADER_pack(type, code, csum, id, sequence) ==
    <<type, code>> \o be16(csum) \o be16(id) \o be16(sequence)

\* TIME.pack(timestamp): the 8 octets of the double, in the byte order of the
\* machine (low octet first); a timestamp is given by its bit pattern
RECURSIVE le_bytes(_, _)
le_bytes(t, n) == IF n = 0 THEN <<>> ELSE <<t % 256>> \o le_bytes(t \div 256, n - 1)
TIME_pack(timestamp) == le_bytes(timestamp, TIME_size)

\* TIME.unpack_from(payload, offset)
RECURSIVE from_le(_)
from_le(bs) == IF bs = <<>> THEN 0 ELSE Head(bs) + 256 * from_le(Tail(bs))
TIME_unpack_from(payload, offset) == from_le(SubSeq(payload, offset + 1, offset + TIME_size))

\* sum(payload[k::2]) for the 0-based index k
RECURSIVE sum_from(_, _)
sum_from(payload, k) ==
    IF k + 1 > Len(payload) THEN 0 ELSE payload[k + 1] + sum_from(payload, k + 2)

\* while result >= 0x10000: result = sum(divmod(result, 0x10000))
RECURSIVE fold(_)
fold(r) == IF r >= 65536 THEN fold((r \div 65536) + (r % 65536)) ELSE r

\* protocol.checksum
checksum(payload) ==
    65535 - fold(sum_from(payload, 0) + sum_from(payload, 1) * 256)

padding == [k \in 1..(ICMP_DEFAULT_SIZE - HEADER_size - TIME_size) |-> Q]

\* protocol.encode_request, for arguments HEADER.pack accepts
encode_request(request, icmp_id, icmp_seq, timestamp) ==
    LET header  == bytes_Header(request, ICMP_DEFAULT_CODE, 0, icmp_id, icmp_seq)
        payload == TIME_pack(timestamp) \o padding
        csum    == checksum(header \o payload)
    IN  HEADER_pack(request, ICMP_DEFAULT_CODE, csum, icmp_id, icmp_seq) \o payload

\* a decoder that never skips an outer header (sensitivity of C23)
decode_response_noskip(payload, with_ip_header) ==
    IF payload[1] \notin {ECHO_REPLY, ECHO_V6_REPLY}
    THEN [NoDecoded EXCEPT !.error = "ValueError", !.type = payload[1]]
    ELSE [error     |-> "",
          type      |-> payload[1],
          code      |-> payload[2],
          checksum  |-> payload[3] * 256 + payload[4],
          id        |-> payload[5] * 256 + payload[6],
          sequence  |-> payload[7] * 256 + payload[8],
          time_sent |-> TIME_unpack_from(payload, HEADER_size)]

\* protocol.decode_response
decode_response(payload, with_ip_header) ==
    LET offset == IF with_ip_header THEN IP_HEADER_size ELSE 0
        type   == payload[offset + 1]
    IN  IF type \notin {ECHO_REPLY, ECHO_V6_REPLY}
        THEN [NoDecoded EXCEPT !.error = "ValueError", !.type = type]
        ELSE [error     |-> "",
              type      |-> type,
              code      |-> payload[offset + 2],
              checksum  |-> payload[offset + 3] * 256 + payload[offset + 4],
              id        |-> payload[offset + 5] * 256 + payload[offset + 6],
              sequence  |-> payload[offset + 7] * 256 + payload[offset + 8],
              time_sent |-> TIME_unpack_from(payload, offset + HEADER_size)]

\* the echo reply a destination returns for a request: the same octets with
\* the reply type and the Internet checksum of the message
echo_reply(bs) ==
    LET type   == IF bs[1] = ECHO_REQUEST THEN ECHO_REPLY ELSE ECHO_V6_REPLY
        zeroed == <<type, bs[2], 0, 0>> \o SubSeq(bs, 5, Len(bs))
        csum   == 65535 - fold(sum_from(zeroed, 0) * 256 + sum_from(zeroed, 1))
    IN  <<type, bs[2]>> \o be16(csum) \o SubSeq(bs, 5, Len(bs))

\* the outer IP header a raw socket delivers in front of the message
ip_header == [k \in 1..IP_HEADER_size |-> IF k = 1 THEN 69 ELSE 0]

SampleU16   == {0, 1, 255, 256, 65535}
SampleTimes == {0, 1, 65794}

codecRest == <<variant, addresses, timeout, has_ip_header, addr_map, errors, err_i,
               sweepVars, loopVars, rx, kept, trace, count, seq_id, paceVars, statsVars, lookups>>

InitCodec ==
    /\ variant \in {"sync", "async"}
    /\ addresses = <<>>
    /\ count = NoCount
    /\ timeout = "finite"
    /\ has_ip_header \in BOOLEAN
    /\ pc = "start"
    /\ addr_map = <<>> /\ errors = <<>> /\ err_i = 0
    /\ seq_id = 0
    /\ pending_ips = {} /\ result = NoResult /\ infos = <<>> /\ tmo_left = {}
    /\ responses = <<>> /\ reader = FALSE /\ timer = "off" /\ getter = "none"
    /\ must_cancel = FALSE /\ ready = <<>> /\ ntodo = 0
    /\ n_select = 0 /\ n_recv = 0 /\ rx = NoPacket
    /\ exc = ""
    /\ kept = <<>>
    /\ trace = <<>>
    /\ PacerIdle /\ StatsIdle /\ ResolverIdle
    /\ req_args \in [request : {ECHO_REQUEST, ECHO_V6_REQUEST}, icmp_id : SampleU16,
                     icmp_seq : SampleU16 \cup {SeqStop}, timestamp : SampleTimes]
    /\ wire = <<>>
    /\ decoded = NoDecoded

\* socket_encode_request: payload = encode_request(...)
Encode ==
    /\ pc = "start"
    /\ IF pack_ok(req_args.icmp_id) /\ pack_ok(req_args.icmp_seq)
       THEN /\ wire' = encode_request(req_args.request, req_args.icmp_id,
                                      req_args.icmp_seq, req_args.timestamp)
            /\ pc' = "encoded" /\ exc' = exc
       ELSE /\ pc' = "raised" /\ exc' = "struct.error"
            /\ wire' = wire
    /\ UNCHANGED <<codecRest, req_args, decoded>>

\* the request octets themselves are given to decode_response
DecodeRequest ==
    /\ pc = "encoded"
    /\ ~has_ip_header
    /\ decoded' = decode_response(wire, FALSE)
    /\ pc' = "looped"
    /\ UNCHANGED <<codecRest, req_args, wire, exc>>

\* the destination answers; recvfrom returns its reply
Echo ==
    /\ pc = "encoded"
    /\ wire' = (IF has_ip_header THEN ip_header ELSE <<>>) \o echo_reply(wire)
    /\ pc' = "echoed"
    /\ UNCHANGED <<codecRest, req_args, decoded, exc>>

\* socket_read_one_ping: response = decode_response(payload, ip_header)
Decode ==
    /\ pc = "echoed"
    /\ decoded' = decode_response(wire, has_ip_header)
    /\ pc' = "decoded"
    /\ UNCHANGED <<codecRest, req_args, wire, exc>>

NextCodec == Encode \/ DecodeRequest \/ Echo \/ Decode

CodecSpec == InitCodec /\ [][NextCodec]_vars

\* the decoded record carries the identifier, sequence and timestamp encoded
SameFields ==
    /\ decoded.error = ""
    /\ decoded.id = req_args.icmp_id
    /\ decoded.sequence = req_args.icmp_seq
    /\ decoded.time_sent = req_args.timestamp

(***************************************************************************)
(* C20. Round trip, as stated: decode_response applied, without outer      *)
(* header, to the octets of encode_request(kind, id, seq, t) gives a       *)
(* record with the same id, seq and t.                                     *)
(***************************************************************************)
C20_RoundTrip == pc = "looped" => SameFields

(***************************************************************************)
(* C20, amended.  decode_response applied to the echo reply of             *)
(* encode_request(kind, id, seq, t) gives a record with the same id, seq   *)
(* and t, its type being the reply type of the kind; applied to the        *)
(* request octets themselves it raises the wrong-type error.               *)
(***************************************************************************)
C20_EchoRoundTrip ==
    /\ pc = "decoded" =>
          /\ SameFields
          /\ decoded.type = (IF req_args.request = ECHO_REQUEST THEN ECHO_REPLY
                                                                ELSE ECHO_V6_REPLY)
    /\ pc = "looped" =>
          decoded.error = "ValueError" /\ decoded.type = req_args.request

\* a v6 reply without outer header, decoded with the largest identifier
C20_Witness ==
    /\ pc = "decoded" /\ ~has_ip_header
    /\ req_args.request = ECHO_V6_REQUEST
    /\ decoded.id = 65535 /\ decoded.sequence = 256 /\ decoded.time_sent = 65794

\* the RFC 1071 checksum: complement of the end-around-carry sum of the 16-bit
\* big-endian words, an odd-length string padded with one zero octet
rfc1071(b) == 65535 - fold(sum_from(b, 0) * 256 + sum_from(b, 1))

(***************************************************************************)
(* C21. The checksum computed over the whole packet produced by            *)
(* encode_request, checksum field included, is zero: the packet validates  *)
(* under RFC 1071.  (Stated for the reference sum and for the code's own   *)
(* checksum function: neither gives zero.)                                  *)
(***************************************************************************)
C21_PacketValidates ==
    pc = "encoded" => (rfc1071(wire) = 0 \/ checksum(wire) = 0)

\* engine variables of a state in which no engine runs
EngineIdle ==
    /\ addresses = <<>>
    /\ count = NoCount
    /\ timeout = "finite"
    /\ addr_map = <<>> /\ errors = <<>> /\ err_i = 0
    /\ seq_id = 0
    /\ pending_ips = {} /\ result = NoResult /\ infos = <<>> /\ tmo_left = {}
    /\ responses = <<>> /\ reader = FALSE /\ timer = "off" /\ getter = "none"
    /\ must_cancel = FALSE /\ ready = <<>> /\ ntodo = 0
    /\ n_select = 0 /\ n_recv = 0 /\ rx = NoPacket
    /\ exc = ""
    /\ kept = <<>>
    /\ trace = <<>>

MaxLen == 4
SampleOctets == {0, 1, 2, 255}
ByteStrings == UNION {[1..n -> SampleOctets] : n \in 0..MaxLen}

InitChecksum ==
    /\ EngineIdle /\ PacerIdle /\ StatsIdle /\ ResolverIdle
    /\ variant = "sync"
    /\ has_ip_header = FALSE
    /\ pc = "start"
    /\ req_args = NoRequest
    /\ wire \in ByteStrings
    /\ decoded = NoDecoded

\* csum = checksum(b)
Checksum ==
    /\ pc = "start"
    /\ decoded' = [NoDecoded EXCEPT !.error = "", !.checksum = checksum(wire)]
    /\ pc' = "summed"
    /\ UNCHANGED <<codecRest, req_args, wire, exc>>

NextChecksum == Checksum

ChecksumSpec == InitChecksum /\ [][NextChecksum]_vars

(***************************************************************************)
(* C22. checksum(b) equals the RFC 1071 reference for every byte string b: *)
(* even-indexed octets high-order, odd-indexed octets low-order, an        *)
(* odd-length b padded with a trailing zero.                               *)
(***************************************************************************)
C22_ChecksumIsRFC1071 == pc = "summed" => decoded.checksum = rfc1071(wire)

\* what the code computes: the same sum with the octets of each word swapped
C22_SwappedWords ==
    pc = "summed" =>
        LET r == rfc1071(wire)
        IN  decoded.checksum = (r % 256) * 256 + (r \div 256)

\* what recvfrom may return: any message of the expected size, whatever its
\* type, code and checksum
SampleTypes == {ECHO_REPLY, DEST_UNREACH, ECHO_REQUEST, ECHO_V6_REQUEST, ECHO_V6_REPLY}
SampleCodes == {ICMP_DEFAULT_CODE, HOST_UNREACH}

InitDecode ==
    /\ EngineIdle /\ PacerIdle /\ StatsIdle /\ ResolverIdle
    /\ variant = "sync"
    /\ has_ip_header \in BOOLEAN
    /\ pc = "echoed"
    /\ req_args \in [request : SampleTypes, icmp_id : SampleU16,
                     icmp_seq : SampleU16, timestamp : SampleTimes]
    /\ \E code \in SampleCodes, csum \in {0, 258, 65535} :
          wire = (IF has_ip_header THEN ip_header ELSE <<>>)
                 \o HEADER_pack(req_args.request, code, csum,
                                req_args.icmp_id, req_args.icmp_seq)
                 \o TIME_pack(req_args.timestamp) \o padding
    /\ decoded = NoDecoded

NextDecode == Decode

DecodeSpec == InitDecode /\ [][NextDecode]_vars

(***************************************************************************)
(* C23. decode_response skips 20 octets exactly when the outer-header flag *)
(* is set, then reads type, code, checksum, id and sequence in network     *)
(* byte order and the 8-octet timestamp; it raises the wrong-type error    *)
(* exactly when the type is neither 0 nor 129 and succeeds otherwise.      *)
(***************************************************************************)
C23_DecodeOffsets ==
    pc = "decoded" =>
        LET off      == IF has_ip_header THEN 20 ELSE 0
            octet(k) == wire[off + k]
        IN  IF octet(1) \in {0, 129}
            THEN /\ decoded.error = ""
                 /\ decoded.type = octet(1)
                 /\ decoded.code = octet(2)
                 /\ decoded.checksum = octet(3) * 256 + octet(4)
                 /\ decoded.id = octet(5) * 256 + octet(6)
                 /\ decoded.id = req_args.icmp_id
                 /\ decoded.sequence = octet(7) * 256 + octet(8)
                 /\ decoded.sequence = req_args.icmp_seq
                 /\ decoded.time_sent = req_args.timestamp
            ELSE decoded.error = "ValueError"

\* a v6 reply behind an outer header has been decoded
C23_Witness ==
    /\ pc = "decoded" /\ has_ip_header
    /\ Len(wire) = IP_HEADER_size + ICMP_DEFAULT_SIZE
    /\ decoded.error = "" /\ decoded.type = ECHO_V6_REPLY
    /\ decoded.code = HOST_UNREACH /\ decoded.checksum = 258
    /\ decoded.id = 256 /\ decoded.sequence = 65535 /\ decoded.time_sent = 65794

\* a message of another type has been refused
C23_Refused ==
    pc = "decoded" /\ req_args.request = DEST_UNREACH /\ decoded.error = "ValueError"

(***************************************************************************)
(* tools.PingStats wrapped around a stream of outcomes.  Times are whole   *)
(* milliseconds; a record without "error" key has error "", a record       *)
(* without "time" key (an error outcome) has time 0.  Quotients (loss,     *)
(* avg) are kept as numerator and denominator.                             *)
(***************************************************************************)
MaxStream == 3

StatIPs   == {"10.0.0.1", "10.0.0.2"}
StatHosts == {"a.org", "b.org"}
StatTimes == {10, 20}

\* one record of the wrapped stream: a reply or an error outcome
Outcomes ==
    [ip : StatIPs, host : StatHosts, sequence : {0}, time : StatTimes, error : {""}]
    \cup [ip : StatIPs, host : StatHosts, sequence : {0}, time : {0},
          error : {"timed out"}]

\* the k-th record of a stream carries sequence number k
Streams ==
    UNION {{[k \in 1..n |-> [f[k] EXCEPT !.sequence = k]] : f \in [1..n -> Outcomes]} :
           n \in 0..MaxStream}

statsRest == <<variant, addresses, timeout, has_ip_header, addr_map, errors, err_i,
               sweepVars, loopVars, rx, kept, trace, count, seq_id, paceVars, codecVars, lookups>>

InitStats ==
    /\ EngineIdle /\ PacerIdle /\ CodecIdle /\ ResolverIdle
    /\ variant \in {"sync", "async"}
    /\ has_ip_header = FALSE
    /\ pc = "start"
    /\ stream \in Streams
    /\ s_i = 0
    /\ stats = <<>>
    /\ annotated = <<>>

Quot(n, d) == [num |-> n, den |-> d]

\* HostStats.__init__
HostStats(ip, host) ==
    [ip |-> ip, host |-> host, errors |-> 0, max |-> 0, min |-> 99999999,
     sum |-> 0, total |-> 0]

HostStats_loss(h) == Quot(h.errors, h.total)
HostStats_ok(h)   == h.total - h.errors
HostStats_avg(h)  == Quot(h.sum, h.total)

max(a, b) == IF a >= b THEN a ELSE b
min(a, b) == IF a <= b THEN a ELSE b

\* an update that takes every record for a reply (sensitivity of C25)
update_host_all_ok(h, r) ==
    [h EXCEPT !.total = h.total + 1,
              !.max = max(h.max, r.time), !.min = min(h.min, r.time),
              !.sum = h.sum + r.time]

\* update_stats: what it does to the HostStats of result["ip"]
update_host(h, r) ==
    IF r.error # ""
    THEN [h EXCEPT !.total = h.total + 1, !.errors = h.errors + 1]
    ELSE [h EXCEPT !.total = h.total + 1,
                   !.max = max(h.max, r.time), !.min = min(h.min, r.time),
                   !.sum = h.sum + r.time]

\* an annotation that also copies the host the statistics were created with
\* (sensitivity of C26)
annotate_stats_host(r, h) ==
    [ip |-> r.ip, host |-> h.host, sequence |-> r.sequence, time |-> r.time,
     error |-> r.error,
     min_time |-> h.min, max_time |-> h.max, avg_time |-> HostStats_avg(h),
     total_nb |-> h.total, nb_requests |-> h.total, nb_ok |-> HostStats_ok(h),
     nb_errors |-> h.errors, accum_time |-> h.sum, loss |-> HostStats_loss(h)]

\* update_stats: the keys it sets on the result
annotate(r, h) ==
    [ip |-> r.ip, host |-> r.host, sequence |-> r.sequence, time |-> r.time,
     error |-> r.error,
     min_time |-> h.min, max_time |-> h.max, avg_time |-> HostStats_avg(h),
     total_nb |-> h.total, nb_requests |-> h.total, nb_ok |-> HostStats_ok(h),
     nb_errors |-> h.errors, accum_time |-> h.sum, loss |-> HostStats_loss(h)]

\* self.stats.get(ip, SENTINEL), creating the entry when it is missing
stats_get(st, r) == IF r.ip \in DOMAIN st THEN st[r.ip] ELSE HostStats(r.ip, r.host)

\* PingStats.__iter__ / __aiter__: one turn of the loop
StatsNext ==
    /\ pc = "start"
    /\ s_i < Len(stream)
    /\ LET r == stream[s_i + 1]
           h == update_host(stats_get(stats, r), r)
       IN  /\ stats' = [ip \in DOMAIN stats \cup {r.ip} |-> IF ip = r.ip THEN h ELSE stats[ip]]
           /\ annotated' = Append(annotated, annotate(r, h))
    /\ s_i' = s_i + 1
    /\ UNCHANGED <<statsRest, pc, exc, stream>>

\* the wrapped stream is exhausted: the loop, and the generator, end
StatsEnd ==
    /\ pc = "start"
    /\ s_i = Len(stream)
    /\ pc' = "done"
    /\ UNCHANGED <<statsRest, exc, stream, s_i, stats, annotated>>

NextStats == StatsNext \/ StatsEnd

StatsSpec == InitStats /\ [][NextStats]_vars

\* the stream positions up to i whose record is about the ip of record i
SameIp(i) == {j \in 1..i : stream[j].ip = stream[i].ip}
Replied(i) == {j \in SameIp(i) : stream[j].error = ""}

RECURSIVE SumTimes(_)
SumTimes(S) ==
    IF S = {} THEN 0
    ELSE LET j == CHOOSE x \in S : TRUE IN stream[j].time + SumTimes(S \ {j})

(***************************************************************************)
(* C24. One destination replies in 10 ms in the first sweep and times out  *)
(* in the second: the second outcome is annotated nb_requests = 2,         *)
(* nb_ok = 1, nb_errors = 1, loss = 0.5 and min_time = max_time =          *)
(* avg_time = 10 ms.                                                       *)
(***************************************************************************)
C24_Scenario ==
    /\ Len(stream) = 2 /\ Len(annotated) = 2
    /\ stream[1].ip = stream[2].ip
    /\ stream[1].error = "" /\ stream[1].time = 10
    /\ stream[2].error # ""

C24_SecondAnnotations ==
    C24_Scenario =>
        LET a == annotated[2]
        IN  /\ a.nb_requests = 2 /\ a.nb_ok = 1 /\ a.nb_errors = 1
            /\ 2 * a.loss.num = a.loss.den
            /\ a.min_time = 10 /\ a.max_time = 10
            /\ a.avg_time.num = 10 * a.avg_time.den

\* what the code gives in that scenario: the average is 5 ms, the sum of the
\* reply times divided by the number of requests
C24_AverageOverRequests ==
    C24_Scenario =>
        LET a == annotated[2]
        IN  /\ a.nb_requests = 2 /\ a.nb_ok = 1 /\ a.nb_errors = 1
            /\ 2 * a.loss.num = a.loss.den
            /\ a.min_time = 10 /\ a.max_time = 10
            /\ a.avg_time.num = 5 * a.avg_time.den

SetMin(S) == CHOOSE t \in S : \A u \in S : t <= u
SetMax(S) == CHOOSE t \in S : \A u \in S : t >= u
TimesOf(S) == {stream[j].time : j \in S}

C26_SameRecords ==
    /\ Len(annotated) = s_i
    /\ s_i <= Len(stream)
    /\ \A i \in 1..Len(annotated) :
          /\ annotated[i].ip = stream[i].ip
          /\ annotated[i].host = stream[i].host
          /\ annotated[i].sequence = stream[i].sequence
          /\ annotated[i].time = stream[i].time
          /\ annotated[i].error = stream[i].error
    /\ pc = "done" => Len(annotated) = Len(stream)
    /\ (pc = "start" /\ s_i = Len(stream)) => ENABLED StatsEnd
    /\ (pc = "start" /\ s_i < Len(stream)) => ~ENABLED StatsEnd

\* a stream in which one ip is reported under two hosts has gone through
C26_Witness ==
    /\ pc = "done" /\ Len(annotated) = 3
    /\ stream[1].ip = stream[2].ip /\ stream[1].host # stream[2].host
    /\ annotated[2].host = stream[2].host
    /\ variant = "async"

\* positions of the input list whose lookup succeeds, resp. gives `ip`
Resolved      == {i \in 1..Len(addresses) : gethostbyname(addresses[i]) # OSError}
ResolvedTo(ip) == {i \in Resolved : gethostbyname(addresses[i]) = ip}

\* the inputs that resolve to ip, in the order of the input list
InInputOrder(ip) ==
    LET ok == SelectSeq(addresses, LAMBDA a : gethostbyname(a) = ip)
    IN  [k \in 1..Len(ok) |-> address_info(ok[k])]

(***************************************************************************)
(* C27. For both resolvers addr_map[ip] lists the inputs that resolved to  *)
(* ip in the order of the input list, whatever the order in which the      *)
(* lookups complete.                                                       *)
(***************************************************************************)
C27_InputOrder ==
    pc # "start" => \A ip \in DOMAIN addr_map : addr_map[ip] = InInputOrder(ip)

\* the blocking resolver keeps the order of the input list
C27_SyncOnly ==
    (pc # "start" /\ variant = "sync") =>
        \A ip \in DOMAIN addr_map : addr_map[ip] = InInputOrder(ip)

ErrorKeys == {errors[k].addr : k \in 1..Len(errors)}

(***************************************************************************)
(* C28. resolve accounts for every input once per occurrence: an input     *)
(* whose lookup failed is a key of errors, an input whose lookup succeeded *)
(* is in exactly one list of addr_map, no input is in both, and no key of  *)
(* errors is a key of addr_map.                                            *)
(***************************************************************************)
C28_EveryInputOnce ==
    pc # "start" =>
        /\ ErrorKeys = {addresses[i] : i \in (1..Len(addresses)) \ Resolved}
        /\ \A j, k \in 1..Len(errors) : errors[j].addr = errors[k].addr => j = k
        /\ DOMAIN addr_map = {gethostbyname(addresses[i]) : i \in Resolved}
        /\ \A ip \in DOMAIN addr_map :
              /\ Len(addr_map[ip]) = Cardinality(ResolvedTo(ip))
              /\ \A k \in 1..Len(addr_map[ip]) :
                    LET info == addr_map[ip][k]
                    IN  /\ info.ip = ip
                        /\ Cardinality({m \in 1..Len(addr_map[ip]) : addr_map[ip][m] = info})
                             = Cardinality({i \in ResolvedTo(ip) :
                                               address_info(addresses[i]) = info})
        /\ \A i \in Resolved : addresses[i] \notin ErrorKeys
        /\ ErrorKeys \cap DOMAIN addr_map = {}

\* of two inputs one was resolved and the other failed
C28_Witness ==
    /\ pc # "start" /\ Len(addresses) = 2
    /\ Cardinality(Resolved) = 1
    /\ \E ip \in DOMAIN addr_map : Len(addr_map[ip]) = 1
    /\ Len(errors) = 1

(***************************************************************************)
(* socket.async_resolve_addresses task by task: the TaskGroup creates one  *)
(* task per address, the tasks complete in any order, and leaving the      *)
(* group waits for all of them.                                            *)
(***************************************************************************)
InitResolver ==
    /\ variant = "async"
    /\ addresses \in AddressLists
    /\ count = NoCount
    /\ timeout = "finite"
    /\ has_ip_header = FALSE
    /\ pc = "start"
    /\ addr_map = <<>> /\ errors = <<>> /\ err_i = 0
    /\ seq_id = 0
    /\ pending_ips = {} /\ result = NoResult /\ infos = <<>> /\ tmo_left = {}
    /\ responses = <<>> /\ reader = FALSE /\ timer = "off" /\ getter = "none"
    /\ must_cancel = FALSE /\ ready = <<>> /\ ntodo = 0
    /\ n_select = 0 /\ n_recv = 0 /\ rx = NoPacket
    /\ exc = ""
    /\ kept = <<>>
    /\ trace = <<>>
    /\ PacerIdle /\ CodecIdle /\ StatsIdle
    /\ lookups = <<>>

resolverRest == <<variant, addresses, count, timeout, has_ip_header, err_i, seq_id,
                  sweepVars, loopVars, rx, exc, kept, trace, paceVars, codecVars, statsVars>>

\* _ = [tg.create_task(resolve(address)) for address in addresses]
Dispatch ==
    /\ pc = "start"
    /\ lookups' = [i \in 1..Len(addresses) |-> [state |-> "running", at |-> 0]]
    /\ pc' = "gathering"
    /\ UNCHANGED <<resolverRest, addr_map, errors>>

Completed(ls) == Cardinality({i \in 1..Len(ls) : ls[i].state # "running"})

\* a failing lookup that takes the other tasks of the group down with it
\* (sensitivity of C29)
fail_lookup_cancels(ls, i) ==
    [k \in 1..Len(ls) |->
        IF k = i THEN [state |-> "failed", at |-> Completed(ls) + 1]
        ELSE IF ls[k].state = "running" THEN [state |-> "cancelled", at |-> Completed(ls) + 1]
        ELSE ls[k]]

\* resolve(): the except clauses take the error of the lookup; the task ends
\* without raising
fail_lookup(ls, i) ==
    [ls EXCEPT ![i] = [state |-> "failed", at |-> Completed(ls) + 1]]

\* resolve(address) of one task runs to its end
LookupDone ==
    /\ pc = "gathering"
    /\ \E i \in 1..Len(lookups) :
          /\ lookups[i].state = "running"
          /\ IF gethostbyname(addresses[i]) # OSError
             THEN /\ addr_map' = setdefault_append(addr_map, address_info(addresses[i]))
                  /\ errors' = errors
                  /\ lookups' = [lookups EXCEPT ![i] =
                                    [state |-> "done", at |-> Completed(lookups) + 1]]
             ELSE /\ errors' = dict_set(errors, addresses[i], NameError)
                  /\ addr_map' = addr_map
                  /\ lookups' = fail_lookup(lookups, i)
    /\ UNCHANGED <<resolverRest, pc>>

\* the `async with` block is left once no task of the group is running
Return ==
    /\ pc = "gathering"
    /\ \A i \in 1..Len(lookups) : lookups[i].state # "running"
    /\ pc' = "resolved"
    /\ UNCHANGED <<resolverRest, addr_map, errors, lookups>>

NextResolver == Dispatch \/ LookupDone \/ Return

ResolverSpec == InitResolver /\ [][NextResolver]_vars

(***************************************************************************)
(* C29. In async resolution every input is dispatched as its own           *)
(* concurrent lookup and a failing lookup neither cancels nor loses any    *)
(* other: when async_resolve_addresses returns, every lookup has completed *)
(* and each input is in errors (lookup failed) or in addr_map (lookup      *)
(* succeeded).                                                             *)
(***************************************************************************)
C29_NoLookupLost ==
    /\ pc # "start" =>
          /\ Len(lookups) = Len(addresses)
          /\ \A i \in 1..Len(lookups) : lookups[i].state # "cancelled"
    /\ pc = "resolved" =>
          \A i \in 1..Len(addresses) :
             /\ lookups[i].state \in {"done", "failed"}
             /\ lookups[i].state = "failed" <=> addresses[i] \in ErrorKeys
             /\ lookups[i].state = "done" <=>
                   \E ip \in DOMAIN addr_map : \E k \in 1..Len(addr_map[ip]) :
                      addr_map[ip][k] = address_info(addresses[i])
             /\ lookups[i].state = "failed" <=> gethostbyname(addresses[i]) = OSError

\* the first lookup to complete failed while the other one was running, and
\* that one was resolved afterwards
C29_Witness ==
    /\ pc = "resolved" /\ Len(lookups) = 2
    /\ \E i, j \in 1..2 :
          /\ lookups[i] = [state |-> "failed", at |-> 1]
          /\ lookups[j] = [state |-> "done", at |-> 2]
          /\ addresses[j] = "b.org" /\ "10.0.0.2" \in DOMAIN addr_map

\* the ips for which the window holds a timeout outcome
TimedOutIps(tr) == {tr[i].ip : i \in {k \in 1..Len(tr) : IsTmo(tr[k])}}

(***************************************************************************)
(* C30. Async sweep.  When the deadline expires with ips still pending,    *)
(* receive_one_ping yields one timeout outcome for each pending ip and     *)
(* then deregisters the readiness callback.  However a sweep ends (all     *)
(* replied, or deadline) its callback is no longer registered: a callback  *)
(* is registered only inside a sweep, one at a time, and runs only while   *)
(* its sweep waits for replies, never between sweeps.                      *)
(***************************************************************************)
C30_CallbackLifetime ==
    [][variant = "async" =>
        \* registered only inside a sweep, and only by the start of a sweep
        /\ reader' => pc' \in {"await_get", "fanout"}
        /\ (reader' /\ pc = "pace") => ~reader
        /\ (reader' /\ pc # "pace") => reader
        \* the callback reads the socket only while its sweep waits
        /\ n_recv' = n_recv + 1 => (reader /\ pc = "await_get" /\ seq_id > 0)
        \* a timeout outcome is for an ip still pending, not yet reported
        /\ (result' # result /\ IsTimeout(result'.error)) =>
              /\ timer = "expired"
              /\ result'.ip \in pending_ips
              /\ result'.ip \notin TimedOutIps(trace')
              /\ reader'
        \* the sweep ends after the deadline: every pending ip was reported
        /\ (pc # "sleep" /\ pc' = "sleep" /\ timer = "expired") =>
              /\ TimedOutIps(trace') = pending_ips
              /\ ~reader'
    ]_vars

\* a sweep has ended on its deadline with two ips pending
C30_Witness ==
    /\ variant = "async" /\ pc = "sleep" /\ seq_id > 0
    /\ Cardinality(pending_ips) = 2
    /\ TimedOutIps(trace) = pending_ips
    /\ ~reader

(***************************************************************************)
(* The consumer of the async stream stops before the stream has ended.     *)
(* Either it leaves its `async for` (the generators stay suspended at      *)
(* their yield until the garbage collector finalizes them), or its task is *)
(* cancelled while the engine waits in responses.get().                    *)
(***************************************************************************)
InitAbandon == Init /\ variant = "async"

\* the consumer takes the item and does not ask for another one
Abandon ==
    /\ variant = "async"
    /\ pc = "fanout"
    /\ trace' = Append(trace, OutEv(result, Head(infos).host))
    /\ kept' = hand_over(kept, result, Head(infos).host)
    /\ pc' = "abandoned"
    /\ UNCHANGED <<confVars, unitVars, addr_map, errors, err_i, seq_id, sweepVars, rx,
                   loopVars, exc>>

\* the loop goes on for the other tasks: the socket is readable and the
\* reader registered for it, cb(), is called; recvfrom returns p
AbandonedCb(p) ==
    /\ pc = "abandoned"
    /\ reader
    /\ n_recv' = n_recv + 1
    /\ rx' = p
    /\ IF \/ ~decode_ok(p)
          \/ is_old(socket_read_one_ping(p))
          \/ socket_read_one_ping(p).ip \notin pending_ips
       THEN /\ Discards < MaxDiscard
            /\ UNCHANGED <<pending_ips, responses>>
       ELSE LET response == socket_read_one_ping(p)
                left     == pending_ips \ {response.ip}
                q        == Append(responses, response)
            IN  /\ pending_ips' = left
                /\ responses' = IF left = {} THEN Append(q, NoneItem) ELSE q
    /\ UNCHANGED <<confVars, unitVars, kept, pc, addr_map, errors, err_i, seq_id, result,
                   infos, tmo_left, n_select, reader, timer, getter, must_cancel, ready,
                   ntodo, exc, trace>>

\* the abandoned generators are collected: the finalizer of the loop closes
\* them and the finally clause of receive_one_ping runs
Finalize ==
    /\ pc = "abandoned"
    /\ reader' = FALSE /\ timer' = "off"
    /\ pc' = "finalized"
    /\ rx' = NoPacket
    /\ UNCHANGED <<confVars, unitVars, kept, addr_map, errors, err_i, seq_id, pending_ips,
                   result, infos, tmo_left, n_select, n_recv, responses, getter,
                   must_cancel, ready, ntodo, exc, trace>>

\* the consumer's task is cancelled while the engine waits for a reply:
\* CancelledError leaves responses.get() and the finally clause runs
Cancel ==
    /\ variant = "async"
    /\ pc = "await_get"
    /\ ntodo = 0
    /\ reader' = FALSE /\ timer' = "off"
    /\ getter' = "cancelled"
    /\ pc' = "cancelled" /\ exc' = "CancelledError"
    /\ rx' = NoPacket
    /\ UNCHANGED <<confVars, unitVars, kept, addr_map, errors, err_i, seq_id, pending_ips,
                   result, infos, tmo_left, n_select, n_recv, responses, must_cancel,
                   ready, ntodo, trace>>

NextAbandon ==
    \/ Resolve
    \/ EmitError
    \/ StartSweep
    \/ SendFails
    \/ EndStream
    \/ Sleep
    \/ Yield
    \/ LoopPoll
    \/ \E p \in Packets : RunCb(p)
    \/ RunTimer
    \/ RunWakeup
    \/ Abandon
    \/ \E p \in Packets : AbandonedCb(p)
    \/ Finalize
    \/ Cancel

AbandonSpec == InitAbandon /\ [][NextAbandon]_vars

Stopped == pc \in {"abandoned", "finalized", "cancelled"}

(***************************************************************************)
(* C31. Once the consumer has stopped iterating the async stream in the    *)
(* middle of a sweep, the readiness callback is deregistered at the next   *)
(* scheduler point and no callback of the abandoned sweep runs afterwards. *)
(***************************************************************************)
C31_NoCallbackAfterStop ==
    [][Stopped => (n_recv' = n_recv /\ ~reader')]_vars

\* a cancellation delivered to the waiting engine does deregister the callback
C31_CancelDeregisters == pc \in {"cancelled", "finalized"} => ~reader

\* no pull of the consumer is outstanding: it has stopped asking, or the
\* stream has ended
NotPulling == pc \in {"abandoned", "finalized", "cancelled", "done", "raised"}

\* nothing has been done yet: no resolution, no request, no sleep, no reader
Untouched ==
    /\ addr_map = <<>> /\ errors = <<>> /\ err_i = 0
    /\ seq_id = 0 /\ trace = <<>> /\ kept = <<>>
    /\ n_select = 0 /\ n_recv = 0
    /\ ~reader /\ timer = "off"

(***************************************************************************)
(* C32. The stream is cold and pull-based: between the call of ping and    *)
(* the first pull nothing is resolved, sent or slept, and afterwards the   *)
(* engine advances only while the consumer is pulling.                     *)
(***************************************************************************)
C32_PullBased ==
    [][/\ pc = "start" => Untouched
       /\ NotPulling => UNCHANGED <<addr_map, errors, seq_id, pending_ips, responses,
                                    n_select, n_recv, trace>>
      ]_vars

\* the part that holds: nothing happens before the first pull
C32_Cold == pc = "start" => Untouched

(***************************************************************************)
(* C33. Async sweep: every reply the readiness callback accepted (its ip   *)
(* was removed from pending_ips and the reply queued) is emitted as a      *)
(* success outcome of the sweep, also when the deadline fires before the   *)
(* coroutine has taken it from the queue; no destination ends a sweep      *)
(* with neither a success nor a timeout outcome.                           *)
(***************************************************************************)
C33_AcceptedIsEmitted ==
    (variant = "async" /\ SweepOver) =>
        \A ip \in ips :
           /\ ip \notin pending_ips =>
                 \E i \in 1..Len(trace) : IsOk(trace[i]) /\ trace[i].ip = ip
           /\ \E i \in 1..Len(trace) :
                 (IsOk(trace[i]) \/ IsTmo(trace[i])) /\ trace[i].ip = ip

\* without a deadline every accepted reply is emitted
C33_NoDeadline ==
    timeout = "None" => C33_AcceptedIsEmitted

\* the generator is inside a sweep: receiving, or fanning out a result
InSweep(p) == p \in {"recv", "await_get", "fanout"}

\* pending_ips stays within the destinations, only shrinks during a sweep,
\* and loses exactly the peer of the reply just read when it shrinks
PendingShrinks ==
    /\ seq_id' > 0 => pending_ips' \subseteq DOMAIN addr_map'
    /\ seq_id' = seq_id => pending_ips' \subseteq pending_ips
    /\ (seq_id' = seq_id /\ pending_ips' # pending_ips) =>
          /\ rx'.ip \in pending_ips
          /\ pending_ips' = pending_ips \ {rx'.ip}
          /\ rx'.sequence = seq_id

(***************************************************************************)
(* C34. During a sweep pending_ips is a subset of the destinations and     *)
(* only shrinks; each accepted reply removes exactly its peer ip; and the  *)
(* sweep ends exactly when pending_ips is empty or the deadline has fired. *)
(***************************************************************************)
C34_PendingAndEnd ==
    [][/\ PendingShrinks
       /\ (InSweep(pc) /\ ~InSweep(pc')) =>
             (pending_ips' = {} \/ TimedOutIps(trace') # {})
       /\ (InSweep(pc) /\ InSweep(pc') /\ pc' # "fanout") => pending_ips' # {}
      ]_vars

\* the part that holds in both engines
C34_PendingOnly == [][PendingShrinks]_vars

(***************************************************************************)
(* C35. The deadline of a sweep is fixed when its receive phase starts:    *)
(* a discarded reply neither extends nor restarts it, and no receive is    *)
(* attempted once the deadline has come.  (Async engine: the deadline is   *)
(* the one armed by asyncio.timeout; it has come when its handle is due.)  *)
(***************************************************************************)
C35_DeadlineFixed ==
    [][(variant = "async" /\ seq_id' = seq_id) =>
          \* the deadline, once come, stays come
          /\ timer \in {"due", "expired"} => timer' # "armed"
          \* reading a reply leaves the deadline as it is
          /\ n_recv' = n_recv + 1 => timer' = timer
          \* no reply is read once the deadline has come
          /\ n_recv' = n_recv + 1 => timer \notin {"due", "expired"}
      ]_vars

\* the part that holds: the deadline is never moved by a reply
C35_NeverExtended ==
    [][(variant = "async" /\ seq_id' = seq_id) =>
          /\ timer \in {"due", "expired"} => timer' # "armed"
          /\ n_recv' = n_recv + 1 => timer' = timer
      ]_vars

\* this step puts a new result of receive_one_ping in hand, to be fanned out
NewResult == pc' = "fanout" /\ (pc # "fanout" \/ Len(infos) = 1)

(***************************************************************************)
(* C36. Before fan-out a sweep produces at most one outcome per            *)
(* destination ip: never two successes for one ip, never a success and a   *)
(* timeout for one ip.                                                     *)
(***************************************************************************)
C36_OneResultPerIp ==
    [][NewResult =>
          /\ result'.sweep = seq_id'
          /\ \A i \in 1..Len(trace') :
                trace'[i].ev = "out" => trace'[i].ip # result'.ip
      ]_vars

\* a sweep over two destinations has ended with a success for one and a
\* timeout for the other
C36_Witness ==
    /\ SweepOver /\ Cardinality(ips) = 2
    /\ \E i, j \in 1..Len(trace) :
          /\ IsOk(trace[i]) /\ IsTmo(trace[j])
          /\ trace[i].ip # trace[j].ip
    /\ Len(Outs) = 2


(***************************************************************************)
(* The send phase of a sweep, one sendto at a time.                        *)
(* socket_send_one_ping: payload = socket_encode_request(sock, icmp_id,    *)
(* icmp_seq); for ip in ips: socket_send_one_ping_payload(sock, ip,        *)
(* payload).  _one_ping: send_one_ping(ips, seq_id), then receive_one_ping. *)
(* The destinations are what the command line gives after the expansion of *)
(* its networks.                                                           *)
(***************************************************************************)
\* cli.addresses_args: a network is replaced by its addresses
addresses_args(text) ==
    IF text = "10.0.0.0/30"
    THEN <<"10.0.0.0", "10.0.0.1", "10.0.0.2", "10.0.0.3">>
    ELSE <<text>>

\* cli.init: [addr for addresses in args.addresses for addr in addresses]
RECURSIVE flatten(_)
flatten(args) == IF args = <<>> THEN <<>> ELSE addresses_args(Head(args)) \o flatten(Tail(args))

CliArgs == {<<"10.0.0.0/30">>, <<"a.org", "10.0.0.1">>, <<"a.org", "b.org">>,
            <<"b.org", "no.such.host">>, <<"no.such.host">>, <<"a.org">>}

\* socket_request_type, for the AF_INET socket that Socket() opens
socket_request_type == ECHO_REQUEST

InitSender ==
    /\ variant \in {"sync", "async"}
    /\ addresses \in {flatten(args) : args \in CliArgs}
    /\ count = NoCount
    /\ timeout = "finite"
    /\ has_ip_header = TRUE
    /\ pc = "start"
    /\ addr_map = <<>> /\ errors = <<>> /\ err_i = 0
    /\ seq_id = 0
    /\ pending_ips = {} /\ result = NoResult /\ infos = <<>> /\ tmo_left = {}
    /\ responses = <<>> /\ reader = FALSE /\ timer = "off" /\ getter = "none"
    /\ must_cancel = FALSE /\ ready = <<>> /\ ntodo = 0
    /\ n_select = 0 /\ n_recv = 0 /\ rx = NoPacket
    /\ exc = ""
    /\ kept = <<>>
    /\ trace = <<>>
    /\ PacerIdle /\ StatsIdle /\ ResolverIdle /\ CodecIdle

senderRest == <<confVars, paceVars, decoded, statsVars, lookups, kept, addr_map, errors,
                err_i, pending_ips, result, infos, tmo_left, n_select, rx, loopVars>>

\* the requests of this sweep so far, and the ips they have gone to
Requests == SelectSeq(trace, LAMBDA e : e.ev = "send")
SentTo   == {Requests[i].ip : i \in 1..Len(Requests)}

\* next item of the sequence; send_one_ping: the payload is encoded, with the
\* time of this moment in it
EncodeSweep ==
    /\ pc = "pace"
    /\ seq_id < MaxSweeps
    /\ variant = "async" => ips # {}          \* raw_ping: if not ips: return
    /\ seq_id' = NextSeq
    /\ \E t \in SampleTimes :
         /\ req_args' = [request |-> socket_request_type, icmp_id |-> EngineId,
                         icmp_seq |-> NextSeq, timestamp |-> t]
         /\ wire' = encode_request(socket_request_type, EngineId, NextSeq, t)
    /\ trace' = <<>>
    /\ n_recv' = 0
    /\ pc' = IF ips = {} THEN "pace" ELSE "sending"
    /\ UNCHANGED <<senderRest, exc>>

\* one turn of `for ip in ips`: sock.sendto(payload, (ip, 0))
SendOne ==
    /\ pc = "sending"
    /\ \E ip \in ips \ SentTo :
         /\ trace' = Append(trace, [ev |-> "send", ip |-> ip, payload |-> wire])
         /\ pc' = IF SentTo \cup {ip} = ips THEN "receiving" ELSE "sending"
    /\ UNCHANGED <<senderRest, seq_id, req_args, wire, n_recv, exc>>

\* sendto raises OSError, or writes fewer octets than the payload has and the
\* assert fails: the exception leaves send_one_ping, _one_ping and ping
SendOneFails ==
    /\ pc = "sending"
    /\ \E ip \in ips \ SentTo :
         trace' = Append(trace, [ev |-> "sendto raised", ip |-> ip, payload |-> wire])
    /\ exc' \in {"OSError", "AssertionError"}
    /\ pc' = "raised"
    /\ UNCHANGED <<senderRest, seq_id, req_args, wire, n_recv>>

\* receive_one_ping reads the first packet of the sweep; the rest of the
\* sweep is not looked at here
FirstReceive ==
    /\ pc = "receiving"
    /\ n_recv' = n_recv + 1
    /\ pc' = "pace"
    /\ UNCHANGED <<senderRest, seq_id, req_args, wire, trace, exc>>

NextSender == Resolve \/ EmitError \/ EncodeSweep \/ SendOne \/ SendOneFails
                \/ FirstReceive \/ EndStream

SenderSpec == InitSender /\ [][NextSender]_vars

\* the sequence field of a request on the wire
wire_sequence(payload) == 256 * payload[7] + payload[8]

\* the send phase of the sweep is over
SendPhaseOver == seq_id > 0 /\ pc \in {"receiving", "pace", "raised", "done"}

SendsTo(ip) == Cardinality({i \in 1..Len(Requests) : Requests[i].ip = ip})

\* the ip whose sendto raised, if one did
Refused == {trace[i].ip : i \in {j \in 1..Len(trace) : trace[j].ev = "sendto raised"}}

(***************************************************************************)
(* C37. In every sweep all requests are sent before the first receive;     *)
(* once the send phase is over exactly one request has gone to each        *)
(* destination ip that did not refuse it, whatever number of inputs led to *)
(* the ip; every request of the sweep is the payload encoded once for it   *)
(* and carries the sweep's sequence number.                                *)
(***************************************************************************)
C37_OneSendPerIp ==
    /\ n_recv > 0 => SentTo = ips
    /\ SendPhaseOver => \A ip \in ips \ Refused : SendsTo(ip) = 1
    /\ \A i \in 1..Len(Requests) :
          /\ Requests[i].ip \in ips
          /\ Requests[i].payload = wire
          /\ wire_sequence(Requests[i].payload) = seq_id

\* what holds of the requests that were sent: none before the encoding, none
\* after the first receive, at most one per ip and exactly one unless a send
\* raised, all of them the one payload of the sweep
C37_SendsThatHappen ==
    /\ n_recv > 0 => SentTo = ips
    /\ (SendPhaseOver /\ pc # "raised") => \A ip \in ips : SendsTo(ip) = 1
    /\ \A ip \in ips : SendsTo(ip) <= 1
    /\ \A i \in 1..Len(Requests) :
          /\ Requests[i].ip \in ips
          /\ Requests[i].payload = wire
          /\ wire_sequence(Requests[i].payload) = seq_id
          /\ Requests[i].payload[1] = ECHO_REQUEST

\* the four addresses of a network have been sent to, and the first packet
\* of the second sweep has been read
C37_FourSends ==
    /\ Len(addresses) = 4 /\ Cardinality(ips) = 4
    /\ seq_id = 2 /\ n_recv = 1 /\ Len(Requests) = 4

\* two inputs of one ip: one request
C37_Collapsed ==
    /\ Len(addresses) = 2 /\ Cardinality(ips) = 1
    /\ n_recv = 1 /\ Len(Requests) = 1


C39_SleepBeforeEnd ==
    [][/\ pc = "body" => pc' = "sleep"
       /\ pc = "sleep" => (pc' = "pace" /\ now' = now + pacer_dt)
       /\ (pc' = "done" /\ pc # "done") =>
             /\ pc = "pace"
             /\ Finite /\ n_yield = count /\ seq_id = count
             /\ now = (IF strict THEN Later(t_ask, start + count * interval)
                                 ELSE t_ask + interval)
       /\ pc = "done" => pc' = "done"]_vars

\* a strict run of two items has ended, at start + 2 * interval, after a
\* sleep that took time
C39_Witness ==
    /\ pc = "done" /\ strict /\ count = 2
    /\ now = start + 2 * interval
    /\ t_ask < now

\* the same order of events in the engines: once the sleep that follows a
\* sweep is under way no outcome of that sweep comes, and a stream that
\* reports its end after sweeps has the sleep of the last sweep behind it
C39_NothingAfterSleep ==
    /\ \A i, j \in 1..Len(trace) :
          (i < j /\ trace[i].ev = "sleep") => trace[j].ev # "out"
    /\ (pc = "done" /\ seq_id > 0) =>
          /\ Finite /\ seq_id = count
          /\ trace[Len(trace)].ev = "sleep" /\ trace[Len(trace)].sweep = count

====
